---- MODULE Spec2Model ----
(***************************************************************************)
(* A model of the target-discovery agent: the graph nodes of               *)
(* graph_system.py (planner, synthesizer, deDuplicate), the path runner of *)
(* planner_system.py (execute_path_with_reflection and its helpers), the   *)
(* tool registry of executor.py and the learning store of playbook.py.     *)
(***************************************************************************)
EXTENDS Integers, Sequences, FiniteSets, TLC

VARIABLES
    \* --- graph_system.py: TargetDiscoveryState ---
    gpc,                \* position in the graph: planner -> executor -> synthesizer -> curator
    user_input,         \* state["user_input"], a sequence of tokens
    task_understanding, \* state["task_understanding"]
    planned_paths,      \* state["planned_paths"]
    path_results,       \* state["path_results"]
    final_candidates,   \* state["final_candidates"]
    \* --- playbook.py: Playbook ---
    strategies,         \* self.strategies
    playbook_file,      \* the "strategies" list of hcc_playbook.json
    add_calls,          \* the traces add_strategy was called with, in call order
    retrieval,          \* the last retrieve_strategies call and what it returned; top_k 0: none yet
    \* --- planner_system.py: execute_path_with_reflection ---
    rpc,                \* position of the runner: loop, exec, post, synth, done, failed
    path_id,            \* path_spec["path_id"], a sequence of tokens
    steps,              \* the step queue
    i,                  \* the index into the queue (0-based, as in the code)
    history,            \* the history entries {step, args, result}
    active_genes_bus,   \* the context bus
    searched_genes_history, \* the genes already passed to search_literature
    logs,               \* the path's log events
    path_result,        \* what run_single_path returns for the path
    env,                \* the environment of the run: how oracle and tools answer
    inserts_left,       \* INSERT decisions the free oracle may still give
    calls,              \* the calls of oracle, tools and synthesis, in call order
    iters,              \* passes of the while loop begun so far
    end_reason,         \* why the loop ended: exhausted, stop, bound, raised
    \* --- graph_system.py: executor ---
    epc,                \* position of the executor node: idle, pool, returned
    workers,            \* the submitted paths: future state, local_logs, raised
    exec_results,       \* the executor's path_results list, with the path of each
    agg_logs,           \* the executor's logs list
    \* --- tools/mongo_local_tool.py: module globals and the threads in the tool ---
    GLOBAL_MODEL,       \* _GLOBAL_MODEL: 0 for None, t for the model thread t loaded
    GLOBAL_INDEX,       \* _GLOBAL_INDEX: 0 for None, t for the index thread t built
    GLOBAL_DOC_MAP,     \* _GLOBAL_DOC_MAP: 0 for [], t for the list thread t built
    searchers           \* the threads inside _search_local_core: position and what they did

gvars == <<gpc, user_input, task_understanding, planned_paths, path_results, final_candidates>>

pbvars == <<strategies, playbook_file, add_calls, retrieval>>

rvars == <<rpc, path_id, steps, i, history, active_genes_bus, searched_genes_history, logs,
           path_result, env, inserts_left, calls, iters, end_reason>>

evars == <<epc, workers, exec_results, agg_logs>>

tvars == <<GLOBAL_MODEL, GLOBAL_INDEX, GLOBAL_DOC_MAP, searchers>>

vars == <<gvars, pbvars, rvars, evars, tvars>>

-----------------------------------------------------------------------------
(* Bounds of the model *)

\* at most this many path results are handed to the synthesizer
MaxPaths == 2
\* at most this many candidate occurrences over all path results
MaxTotalCands == 2
\* at most this many calls of add_strategy
MaxAdds == 3
\* at most this many INSERT decisions of the free oracle in one path
MaxInserts == 1
\* at most this many passes of the runner's loop are followed
IterCap == 52
\* at most this many paths are submitted to the thread pool
MaxSubmitted == 3
\* at most this many log events of one path
MaxEvents == 2

-----------------------------------------------------------------------------
(* Strings *)

\* gene names as the tools and the language model spell them
GeneNames == {"tp53", "TP53", "EGFR"}

\* str.upper() on the names of the model
Upper(s) ==
    CASE s = "tp53" -> "TP53"
      [] s = "egfr" -> "EGFR"
      [] OTHER -> s

\* the word the planner's regular expression looks for ("验证", verify)
VerifyWord == "<verify>"

\* tokens [a-zA-Z0-9]+ matches
AlnumTokens == {"tp53", "TP53", "egfr", "EGFR"}

\* what the user may type, as token sequences
UserInputs ==
    { <<VerifyWord, " ", "tp53">>,
      <<" ", VerifyWord, "EGFR", " ">>,
      <<VerifyWord, " ", "-">>,
      <<"discover", " ", "TP53">> }

-----------------------------------------------------------------------------
(* graph_system.py: planner *)

RECURSIVE LStrip(_)
LStrip(s) == IF s # <<>> /\ Head(s) = " " THEN LStrip(Tail(s)) ELSE s

RECURSIVE RStrip(_)
RStrip(s) == IF s # <<>> /\ s[Len(s)] = " " THEN RStrip(SubSeq(s, 1, Len(s) - 1)) ELSE s

\* str.strip()
Strip(s) == RStrip(LStrip(s))

\* re.match(r"^验证\s*([a-zA-Z0-9]+)", user_input): the captured group, or "" for no match
VerifyMatch(s) ==
    IF s = <<>> \/ Head(s) # VerifyWord THEN ""
    ELSE LET rest == LStrip(Tail(s))
         IN IF rest # <<>> /\ Head(rest) \in AlnumTokens THEN Head(rest) ELSE ""

\* what understand_task (the language model) may answer in discovery mode
UnderstoodTasks ==
    { [task_type |-> "discovery", target_gene |-> ""],
      [task_type |-> "verification", target_gene |-> ""] }

VerifyTask(target_gene) == [task_type |-> "verification", target_gene |-> target_gene]

VerifyPathId(target_gene) == <<"verify_", target_gene>>

DiscoveryPathId == <<"discovery_pipeline">>

\* the planner node
Planner ==
    /\ gpc = "planner"
    /\ LET m == VerifyMatch(Strip(user_input))
       IN IF m # ""
          THEN /\ task_understanding' = VerifyTask(Upper(m))
               /\ planned_paths' = << VerifyPathId(Upper(m)) >>
          ELSE /\ task_understanding' \in UnderstoodTasks
               /\ planned_paths' = << DiscoveryPathId >>
    /\ gpc' = "executor"
    /\ UNCHANGED <<user_input, path_results, final_candidates>>
    /\ UNCHANGED <<pbvars, rvars, evars, tvars>>

-----------------------------------------------------------------------------
(* graph_system.py: deDuplicate *)

NoNote == [kind |-> "absent", novel |-> TRUE, reason |-> ""]
DictNote(novel, reason) == [kind |-> "dict", novel |-> novel, reason |-> reason]
BareNote(val) == [kind |-> "bare", novel |-> val, reason |-> ""]

\* a path result without a path-level error
OkResult(key, cands, notes) ==
    [error |-> FALSE,
     candidate_targets |-> IF key = "candidate_targets" THEN cands ELSE <<>>,
     candidates |-> IF key = "candidates" THEN cands ELSE <<>>,
     novelty_notes |-> notes]

\* {"error": err_msg}
ErrorResult ==
    [error |-> TRUE, candidate_targets |-> <<>>, candidates |-> <<>>,
     novelty_notes |-> [g \in GeneNames |-> NoNote]]

\* a synthesis: candidates under either key and the novelty notes
Synthesis(key, cands, notes) ==
    [candidate_targets |-> IF key = "candidate_targets" THEN cands ELSE <<>>,
     candidates |-> IF key = "candidates" THEN cands ELSE <<>>,
     novelty_notes |-> notes]

NoNotes == [g \in GeneNames |-> NoNote]

\* {}
EmptySynthesis == Synthesis("candidate_targets", <<>>, NoNotes)

\* syn.get("candidate_targets") or syn.get("candidates") or []
CandsOf(pr) ==
    IF pr.candidate_targets # <<>> THEN pr.candidate_targets ELSE pr.candidates

\* entry = {"gene": gene_raw, "novel": True, "reason": ""} and the novelty update
MakeEntryDropGene(gene_raw, novnotes) ==
    LET val == novnotes[gene_raw]
    IN IF val.kind = "dict" THEN [gene |-> "", novel |-> val.novel, reason |-> val.reason]
       ELSE IF val.kind = "bare" THEN [gene |-> gene_raw, novel |-> val.novel, reason |-> ""]
       ELSE [gene |-> gene_raw, novel |-> TRUE, reason |-> ""]

MakeEntry(gene_raw, novnotes) ==
    LET val == novnotes[gene_raw]
    IN IF val.kind = "dict" THEN [gene |-> gene_raw, novel |-> val.novel, reason |-> val.reason]
       ELSE IF val.kind = "bare" THEN [gene |-> gene_raw, novel |-> val.novel, reason |-> ""]
       ELSE [gene |-> gene_raw, novel |-> TRUE, reason |-> ""]

\* str(gene_raw).upper()
GeneKeyRaw(gene_raw) == gene_raw

GeneKey(gene_raw) == Upper(gene_raw)

\* position of gene_key in the insertion-ordered dict candidates_map, 0 when absent
MapIndex(cmap, gene_key) ==
    IF \E k \in 1..Len(cmap) : cmap[k].key = gene_key
    THEN CHOOSE k \in 1..Len(cmap) : cmap[k].key = gene_key
    ELSE 0

\* the overwrite test of a repeated key
OverwritesNever(old, entry) == FALSE

Overwrites(old, entry) == old.novel /\ ~entry.novel

\* the body of "for c in cands" for one candidate
MergeOne(cmap, gene_raw, novnotes) ==
    IF gene_raw = "" THEN cmap
    ELSE LET gene_key == GeneKey(gene_raw)
             entry == MakeEntry(gene_raw, novnotes)
             k == MapIndex(cmap, gene_key)
         IN IF k # 0
            THEN IF Overwrites(cmap[k].entry, entry)
                 THEN [cmap EXCEPT ![k] = [key |-> gene_key, entry |-> entry]]
                 ELSE cmap
            ELSE Append(cmap, [key |-> gene_key, entry |-> entry])

RECURSIVE MergeCands(_, _, _)
MergeCands(cmap, cands, novnotes) ==
    IF cands = <<>> THEN cmap
    ELSE MergeCands(MergeOne(cmap, Head(cands), novnotes), Tail(cands), novnotes)

RECURSIVE MergePaths(_, _)
MergePaths(cmap, prs) ==
    IF prs = <<>> THEN cmap
    ELSE LET pr == Head(prs)
         IN IF pr.error THEN MergePaths(cmap, Tail(prs))
            ELSE MergePaths(MergeCands(cmap, CandsOf(pr), pr.novelty_notes), Tail(prs))

\* list(candidates_map.values())
deDuplicate(paths_results) ==
    LET cmap == MergePaths(<<>>, paths_results)
    IN [k \in 1..Len(cmap) |-> cmap[k].entry]

-----------------------------------------------------------------------------
(* graph_system.py: synthesizer *)

RECURSIVE SelectSeq2(_, _)
SelectSeq2(s, target_gene) ==
    IF s = <<>> THEN <<>>
    ELSE IF Upper(Head(s).gene) = target_gene
         THEN <<Head(s)>> \o SelectSeq2(Tail(s), target_gene)
         ELSE SelectSeq2(Tail(s), target_gene)

\* the verification filter of the synthesizer
NoVerificationFilter(task_info, cands) == cands

VerificationFilter(task_info, cands) ==
    IF task_info.task_type = "verification" /\ Upper(task_info.target_gene) # ""
    THEN SelectSeq2(cands, Upper(task_info.target_gene))
    ELSE cands

\* the synthesizer node
Synthesizer ==
    /\ gpc = "synthesizer"
    /\ final_candidates' = VerificationFilter(task_understanding, deDuplicate(path_results))
    /\ gpc' = "curator"
    /\ UNCHANGED <<user_input, task_understanding, planned_paths, path_results>>
    /\ UNCHANGED <<pbvars, rvars, evars, tvars>>

-----------------------------------------------------------------------------
(* The path results the synthesizer is given: every list of at most        *)
(* MaxPaths results holding at most MaxTotalCands candidates in all, built  *)
(* one result and one candidate at a time.                                  *)

RECURSIVE TotalCands(_)
TotalCands(prs) ==
    IF prs = <<>> THEN 0
    ELSE Len(Head(prs).candidate_targets) + Len(Head(prs).candidates) + TotalCands(Tail(prs))

\* the reason a path's novelty notes carry: "[path_id] ..."
PathTag(n) == IF n = 1 THEN "[p1]" ELSE IF n = 2 THEN "[p2]" ELSE "[p3]"

NoteChoices(n) ==
    {NoNote, DictNote(TRUE, PathTag(n)), DictNote(FALSE, PathTag(n)), BareNote(FALSE)}

\* a path finishes: its result joins the list (one result per planned path)
PathResultArrives ==
    /\ gpc = "executor"
    /\ Len(path_results) < Len(planned_paths)
    /\ \/ path_results' = Append(path_results, ErrorResult)
       \/ path_results' = Append(path_results,
                                 OkResult("candidate_targets", <<>>, [g \in GeneNames |-> NoNote]))
    /\ UNCHANGED <<gpc, user_input, task_understanding, planned_paths, final_candidates, pbvars, rvars, evars, tvars>>

\* the synthesis of the last path names one more candidate, with its note, under
\* the key its candidate list has
CandidateArrives ==
    /\ gpc = "executor"
    /\ path_results # <<>>
    /\ TotalCands(path_results) < MaxTotalCands
    /\ LET n == Len(path_results)
           pr == path_results[n]
       IN /\ ~pr.error
          /\ \E g \in GeneNames \cup {""} :
             \E note \in NoteChoices(n) :
             \E key \in {"candidate_targets", "candidates"} :
                  /\ pr.candidate_targets # <<>> => key = "candidate_targets"
                  /\ pr.candidates # <<>> => key = "candidates"
                  /\ g = "" => note = NoNote
                  /\ g # "" /\ pr.novelty_notes[g] # NoNote => note = pr.novelty_notes[g]
                  /\ path_results' =
                       [path_results EXCEPT ![n] =
                          [pr EXCEPT !.candidate_targets =
                                        IF key = "candidate_targets" THEN Append(@, g) ELSE @,
                                     !.candidates =
                                        IF key = "candidates" THEN Append(@, g) ELSE @,
                                     !.novelty_notes =
                                        IF g = "" THEN @ ELSE [@ EXCEPT ![g] = note]]]
    /\ UNCHANGED <<gpc, user_input, task_understanding, planned_paths, final_candidates, pbvars, rvars, evars, tvars>>

\* all paths have finished
ExecutorReturns ==
    /\ gpc = "executor"
    /\ Len(path_results) = Len(planned_paths)
    /\ gpc' = "synthesizer"
    /\ UNCHANGED <<user_input, task_understanding, planned_paths, path_results, final_candidates>>
    /\ UNCHANGED <<pbvars, rvars, evars, tvars>>

\* the store before any run: no hcc_playbook.json
PlaybookEmpty ==
    /\ strategies = <<>>
    /\ playbook_file = <<>>
    /\ add_calls = <<>>
    /\ retrieval = [query |-> <<>>, top_k |-> 0, results |-> <<>>]

\* the literature tool after import, no thread in it: lines 26-28
ResourcesUnloaded ==
    /\ GLOBAL_MODEL = 0
    /\ GLOBAL_INDEX = 0
    /\ GLOBAL_DOC_MAP = 0
    /\ searchers = <<>>

\* the executor node is not running
ExecutorIdle ==
    /\ epc = "idle"
    /\ workers = <<>>
    /\ exec_results = <<>>
    /\ agg_logs = <<>>

\* no path result yet
NoPathResult ==
    [returned |-> FALSE, error |-> FALSE, path_id |-> <<>>, history |-> <<>>,
     synthesis |-> EmptySynthesis, steps |-> <<>>]

\* no path is running
RunnerIdle ==
    /\ rpc = "idle"
    /\ path_id = <<>>
    /\ env = [mode |-> "none"]
    /\ steps = <<>>
    /\ i = 0
    /\ history = <<>>
    /\ active_genes_bus = <<>>
    /\ searched_genes_history = {}
    /\ logs = <<>>
    /\ calls = <<>>
    /\ iters = 0
    /\ inserts_left = 0
    /\ end_reason = "none"
    /\ path_result = NoPathResult

\* a run of the graph from the user's input
GraphInit ==
    /\ gpc = "planner"
    /\ user_input \in UserInputs
    /\ task_understanding = [task_type |-> "none", target_gene |-> ""]
    /\ planned_paths = <<>>
    /\ path_results = <<>>
    /\ final_candidates = <<>>
    /\ PlaybookEmpty
    /\ ResourcesUnloaded
    /\ ExecutorIdle
    /\ RunnerIdle

GraphNext ==
    \/ Planner
    \/ PathResultArrives
    \/ CandidateArrives
    \/ ExecutorReturns
    \/ Synthesizer

SpecGraph == GraphInit /\ [][GraphNext]_vars

\* the fusion of the results of 1..MaxPaths planned paths (plan_paths asks the
\* language model for several) of a discovery task
PlannedPathIds(n) == [k \in 1..n |-> <<"p", k>>]

DedupInit ==
    /\ gpc = "executor"
    /\ user_input = <<"discover">>
    /\ task_understanding = [task_type |-> "discovery", target_gene |-> ""]
    /\ planned_paths \in {PlannedPathIds(n) : n \in 1..MaxPaths}
    /\ path_results = <<>>
    /\ final_candidates = <<>>
    /\ PlaybookEmpty
    /\ ResourcesUnloaded
    /\ ExecutorIdle
    /\ RunnerIdle

DedupNext ==
    \/ PathResultArrives
    \/ CandidateArrives
    \/ ExecutorReturns
    \/ Synthesizer

SpecDedup == DedupInit /\ [][DedupNext]_vars

-----------------------------------------------------------------------------
(* planner_system.py: the decision oracle's reply and safe_parse_json *)

\* the tool names of ToolExecutor.tools
RegisteredTools ==
    {"query_kg", "run_omics", "query_opentargets", "search_literature", "query_mongo_local"}

\* tool names that start with "<"
Placeholders == {"<decide>"}

\* tool_name.startswith("<")
StartsWithLt(tool) == tool \in Placeholders

\* the genes argument of a step: missing, a string or a list
NoGenes == [kind |-> "absent", str |-> "", list |-> <<>>]
StrGenes(s) == [kind |-> "str", str |-> s, list |-> <<>>]
ListGenes(l) == [kind |-> "list", str |-> "", list |-> l]

\* the args of a step; gene = "" when the key is missing
Args(genes, gene) == [genes |-> genes, gene |-> gene]
NoArgs == Args(NoGenes, "")

\* a decision object; decision = "" and tool = "" when the key is missing
Decision(decision, tool, args) ==
    [isdict |-> TRUE, decision |-> decision, tool |-> tool, args |-> args]
EmptyDict == Decision("", "", NoArgs)
\* a JSON value that is no object (null, a list, a number)
NonObject == [isdict |-> FALSE, decision |-> "", tool |-> "", args |-> NoArgs]

\* the reply of the language model: its form and the JSON object it carries
Reply(form, payload) == [form |-> form, payload |-> payload]

\* garbage and empty replies parse as the STOP decision
safe_parse_json_strict(text) ==
    CASE text.form \in {"empty", "garbage"} -> Decision("STOP", "", NoArgs)
      [] text.form = "nonobject" -> NonObject
      [] OTHER -> text.payload

\* safe_parse_json: {} for an empty reply and for text that holds no JSON, the
\* object for plain JSON, for a fenced block and for an object inside prose, and
\* whatever json.loads returns for JSON that is no object
safe_parse_json(text) ==
    CASE text.form = "empty" -> EmptyDict
      [] text.form = "garbage" -> EmptyDict
      [] text.form = "nonobject" -> NonObject
      [] OTHER -> text.payload

-----------------------------------------------------------------------------
(* planner_system.py: _handle_dynamic_decision *)

\* a step of the queue: a bare tool name, or {tool, args, reason}
Step(tool, args) == [tool |-> tool, bare |-> FALSE, args |-> args, reason |-> ""]
BareStep(tool) == [tool |-> tool, bare |-> TRUE, args |-> NoArgs, reason |-> ""]
InsertedStep(tool, args) ==
    [tool |-> tool, bare |-> FALSE, args |-> args, reason |-> "dynamic_insert"]

\* the new element put at the end
ListInsertLast(l, index, x) == Append(l, x)

\* list.insert(index, x) with a 0-based index
ListInsert(l, index, x) ==
    IF index >= Len(l) THEN Append(l, x)
    ELSE SubSeq(l, 1, index) \o <<x>> \o SubSeq(l, index + 1, Len(l))

\* list.pop() of the last element
ListPopLast(l, index) == SubSeq(l, 1, Len(l) - 1)

\* list.pop(index) with a 0-based index
ListPop(l, index) == SubSeq(l, 1, index) \o SubSeq(l, index + 2, Len(l))

\* the step name _handle_dynamic_decision looks at
CurrentStepName(q, current_index) ==
    IF current_index < Len(q) THEN q[current_index + 1].tool ELSE ""

\* should_check
ShouldCheck(q, current_index, is_pre_step) ==
    IF is_pre_step THEN StartsWithLt(CurrentStepName(q, current_index)) ELSE TRUE

\* decision.get("decision", "CONTINUE")
DecTypeDefaultStop(decision) ==
    IF decision.decision = "" THEN "STOP" ELSE decision.decision

DecType(decision) ==
    IF decision.decision = "" THEN "CONTINUE" ELSE decision.decision

\* the new step put at current_index, before the step the runner is at
HandleDecisionInsertsBefore(q, current_index, decision, is_pre_step) ==
    LET name == CurrentStepName(q, current_index)
        dec_type == DecType(decision)
        popping == is_pre_step /\ StartsWithLt(name)
    IN CASE dec_type = "STOP" -> [steps |-> q, ret |-> TRUE]
         [] dec_type = "INSERT" ->
              IF decision.tool # ""
              THEN LET ins == ListInsert(q, current_index,
                                         InsertedStep(decision.tool, decision.args))
                   IN [steps |-> IF popping /\ current_index + 1 < Len(ins)
                                 THEN ListPop(ins, current_index + 1) ELSE ins,
                       ret |-> TRUE]
              ELSE [steps |-> q, ret |-> FALSE]
         [] dec_type = "CONTINUE" ->
              IF popping
              THEN [steps |-> IF current_index < Len(q) THEN ListPop(q, current_index) ELSE q,
                    ret |-> TRUE]
              ELSE [steps |-> q, ret |-> FALSE]
         [] OTHER -> [steps |-> q, ret |-> FALSE]

\* the part of _handle_dynamic_decision after the oracle has answered: the new
\* queue and the returned flag
HandleDecision(q, current_index, decision, is_pre_step) ==
    LET name == CurrentStepName(q, current_index)
        dec_type == DecType(decision)
        popping == is_pre_step /\ StartsWithLt(name)
    IN CASE dec_type = "STOP" -> [steps |-> q, ret |-> TRUE]
         [] dec_type = "INSERT" ->
              IF decision.tool # ""
              THEN LET ins == ListInsert(q, current_index + 1,
                                         InsertedStep(decision.tool, decision.args))
                   IN [steps |-> IF popping /\ current_index < Len(ins)
                                 THEN ListPop(ins, current_index) ELSE ins,
                       ret |-> TRUE]
              ELSE [steps |-> q, ret |-> FALSE]
         [] dec_type = "CONTINUE" ->
              IF popping
              THEN [steps |-> IF current_index < Len(q) THEN ListPop(q, current_index) ELSE q,
                    ret |-> TRUE]
              ELSE [steps |-> q, ret |-> FALSE]
         [] OTHER -> [steps |-> q, ret |-> FALSE]

-----------------------------------------------------------------------------
(* planner_system.py: the context bus and the duplicate-request guard *)

\* target_tools of _inject_context_genes
TargetTools == {"search_literature", "query_opentargets", "query_kg", "run_omics"}

\* tool_args.get("genes") or tool_args.get("gene"), as what the test reads:
\* existing is falsy, or one of the strings "<decide>", "TP53"
ExistingIsFalsy(args) ==
    /\ \/ args.genes.kind = "absent"
       \/ args.genes.kind = "str" /\ args.genes.str = ""
       \/ args.genes.kind = "list" /\ args.genes.list = <<>>
    /\ args.gene = ""

ExistingIsSentinel(args) ==
    \/ args.genes.kind = "str" /\ args.genes.str \in {"<decide>", "TP53"}
    \/ /\ \/ args.genes.kind = "absent"
          \/ args.genes.kind = "str" /\ args.genes.str = ""
          \/ args.genes.kind = "list" /\ args.genes.list = <<>>
       /\ args.gene \in {"<decide>", "TP53"}

\* no injection
InjectNothing(tool_name, args, bus) == args

\* _inject_context_genes: the args after the injection
InjectContextGenes(tool_name, args, bus) ==
    IF tool_name \in TargetTools /\ bus # <<>>
       /\ (ExistingIsFalsy(args) \/ ExistingIsSentinel(args))
    THEN Args(ListGenes(bus), "")
    ELSE args

\* target_genes of the guard: tool_args.get("genes", []), a string made a list
TargetGenes(args) ==
    CASE args.genes.kind = "list" -> args.genes.list
      [] args.genes.kind = "str" -> <<args.genes.str>>
      [] OTHER -> <<>>

RECURSIVE FilterOut(_, _)
FilterOut(l, seen) ==
    IF l = <<>> THEN <<>>
    ELSE IF Head(l) \in seen THEN FilterOut(Tail(l), seen)
         ELSE <<Head(l)>> \o FilterOut(Tail(l), seen)

NewGenesUnfiltered(target_genes, searched) == target_genes

\* new_genes = [g for g in target_genes if g not in searched_genes_history]
NewGenes(target_genes, searched) == FilterOut(target_genes, searched)

\* the first element only
SeqToSetHead(l) == IF l = <<>> THEN {} ELSE {Head(l)}

\* set(l), as searched_genes_history.update(new_genes) adds it
SeqToSet(l) == {l[k] : k \in 1..Len(l)}

-----------------------------------------------------------------------------
(* executor.py: ToolExecutor.execute *)

\* the non-empty names of a list without repetitions, in order of first
\* occurrence: the keys of a dict filled from the list, list(set(...))
RECURSIVE Distinct(_, _)
Distinct(l, seen) ==
    IF l = <<>> THEN <<>>
    ELSE IF Head(l) = "" \/ Head(l) \in seen THEN Distinct(Tail(l), seen)
         ELSE <<Head(l)>> \o Distinct(Tail(l), seen \cup {Head(l)})

\* a record of a tool's "results": the key its name is stored under
\* ("gene_id", "gene" or "symbol"), the name, whether it carries log2FoldChange
\* and padj, and its is_significant flag
Item(key, name, stats, sig) ==
    [key |-> key, name |-> name, stats |-> stats, is_significant |-> sig]

\* a tool result: its type, whether it carries an error, what it was skipped
\* for, whether "results" is absent, a dict of two lists or a list, the records
\* of "results" in order, n_results, gene_details as {gene, count, summary} in
\* key order (a summary is a sequence of words) and evidence as the genes in key
\* order with the sources of their evidence items
ToolResult(type, error, status, kind, results, n_results, gene_details, evidence) ==
    [type |-> type, error |-> error, status |-> status, kind |-> kind,
     results |-> results, n_results |-> n_results, gene_details |-> gene_details,
     evidence |-> evidence]

\* a result that holds no data: {type, error} or {type, status, ...}
Result(type, error, status) ==
    ToolResult(type, error, status, "absent", <<>>, 0, <<>>, <<>>)

\* a string argument that contains "<decide>"
HasPlaceholderArg(args) ==
    \/ args.genes.kind = "str" /\ args.genes.str = "<decide>"
    \/ args.gene = "<decide>"

\* a text, word by word: a word or a number
W(s) == [s |-> s, n |-> 0]
N(n) == [s |-> "#", n |-> n]

\* a summary the summarising model may write for a gene
PlainSummary == <<W("oncogene")>>

\* OmicsTool.run: the result for the genes asked for (verification) or for the
\* significant genes of the file (discovery); found says whether the file
\* holds the genes asked for
OmicsRun(args, data, found) ==
    LET asked == IF args.genes.kind = "list" THEN args.genes.list
                 ELSE IF args.genes.kind = "str" /\ args.genes.str # ""
                      THEN <<args.genes.str>> ELSE <<>>
    IN IF asked # <<>>
       THEN ToolResult("run_omics_verification", FALSE, "", "list",
                       [k \in 1..Len(asked) |->
                           Item("gene", IF args.genes.kind = "list" THEN asked[k] ELSE "?",
                                found /\ args.genes.kind = "list",
                                found /\ args.genes.kind = "list")],
                       0, <<>>, <<>>)
       ELSE ToolResult("run_omics_discovery", FALSE, "", "dict",
                       [k \in 1..Len(data) |-> Item("gene_id", data[k], TRUE, TRUE)],
                       0, <<>>, <<>>)

\* OpenTargetsTool.run: the ranked target list
OpenTargetsRun(data) ==
    ToolResult("query_opentargets", FALSE, "", "list",
               [k \in 1..Len(data) |-> Item("symbol", data[k], FALSE, FALSE)],
               Len(data), <<>>, <<>>)

\* KGTool.run: linked targets with their evidence, no "results"
KgRun(data) ==
    ToolResult("query_kg", FALSE, "", "absent", <<>>, 0, <<>>,
               [k \in 1..Len(data) |-> [gene |-> data[k], sources |-> <<"Inference (PPI)">>]])

\* MongoLocalTool.run: one gene_details entry per gene of genes, else one for
\* gene; held are the genes the literature base holds evidence on
MongoLocalRun(args, held, summary) ==
    LET asked == IF args.genes.kind = "list" THEN args.genes.list
                 ELSE IF args.gene # "" THEN <<args.gene>> ELSE <<>>
        named == Distinct(asked, {})
        hits == SelectSeq(asked, LAMBDA g : g \in held)
    IN ToolResult("search_literature", FALSE, "", "absent", <<>>, Len(hits),
                  [k \in 1..Len(named) |->
                      IF named[k] \in held
                      THEN [gene |-> named[k], count |-> 1, summary |-> summary]
                      ELSE [gene |-> named[k], count |-> 0, summary |-> <<W("none")>>]],
                  <<>>)

\* the run() of the tool registered under a name, for what its data source holds
ToolRun(step, args, data) ==
    CASE step = "run_omics" -> OmicsRun(args, data, data # <<>>)
      [] step = "query_opentargets" -> OpenTargetsRun(data)
      [] step = "query_kg" -> KgRun(data)
      [] OTHER -> MongoLocalRun(args, IF data # <<>> THEN GeneNames \cup {"MYC"} ELSE {},
                                PlainSummary)

\* the result of a tool that could not reach its data source: {type, error},
\* with an empty "results" for OpenTargets
ToolError(step) ==
    IF step = "query_opentargets"
    THEN ToolResult(step, TRUE, "", "list", <<>>, 0, <<>>, <<>>)
    ELSE Result(IF step = "query_kg" THEN "" ELSE
                IF step = "query_mongo_local" THEN "search_literature" ELSE step,
                TRUE, "")

\* what a tool's run() may return for a step: a result with genes, a result
\* without, or a result with an error field; for an omics verification of
\* several genes also the result when the file holds them all and only the
\* first passes the significance threshold
ToolReturns(step, args) ==
    { ToolRun(step, args, <<"EGFR", "MYC">>),
      ToolRun(step, args, <<>>),
      ToolError(step) }
    \cup (IF step = "run_omics" /\ args.genes.kind = "list" /\ Len(args.genes.list) >= 2
          THEN {ToolResult("run_omics_verification", FALSE, "", "list",
                           [k \in 1..Len(args.genes.list) |->
                               Item("gene", args.genes.list[k], TRUE, k = 1)],
                           0, <<>>, <<>>)}
          ELSE {})

\* ToolExecutor.execute up to the call of the tool: the result it returns
\* without calling a tool, or "call" when it calls the tool
ExecuteWithoutTool(step, args) ==
    IF step \notin RegisteredTools THEN Result(step, TRUE, "")
    ELSE IF HasPlaceholderArg(args) THEN Result(step, FALSE, "skipped")
    ELSE Result(step, FALSE, "call")

\* found_genes[:10] and the like
TopN == 10
Take(l, n) == IF Len(l) <= n THEN l ELSE SubSeq(l, 1, n)

NamesOf(items) == [k \in 1..Len(items) |-> items[k].name]

\* extract_genes_from_result: the first ten records of a discovery result, the
\* significant records of a verification result, the first ten symbols of an
\* OpenTargets result, and the name or symbol of the records of a knowledge
\* graph result's "results"
ExtractGenes(tool_name, result) ==
    CASE tool_name = "run_omics" /\ result.kind = "dict" ->
            Distinct(NamesOf(SelectSeq(Take(result.results, TopN),
                                       LAMBDA it : it.key \in {"gene_id", "gene"})), {})
      [] tool_name = "run_omics" /\ result.kind = "list" ->
            IF \E k \in 1..Len(result.results) :
                   result.results[k].is_significant /\ result.results[k].key # "gene"
            THEN <<>>
            ELSE Distinct(NamesOf(SelectSeq(result.results,
                                            LAMBDA it : it.is_significant)), {})
      [] tool_name = "query_kg" /\ result.kind = "list" ->
            Distinct(NamesOf(SelectSeq(result.results,
                                       LAMBDA it : it.key \in {"name", "symbol"})), {})
      [] tool_name = "query_opentargets" /\ result.kind = "list" ->
            Distinct(NamesOf(SelectSeq(Take(result.results, TopN),
                                       LAMBDA it : it.key = "symbol")), {})
      [] OTHER -> <<>>

-----------------------------------------------------------------------------
(* planner_system.py: _ensure_novelty_notes *)

\* f"[Step {step_num} Omics] logFC={logfc_str}, p={padj_str}"
OmicsEv(step_num) ==
    <<W("[Step"), N(step_num), W("Omics]"), W("logFC="), W(","), W("p=")>>

\* f"[Step {step_num} OpenTargets] Rank={rank+1}, Score={score:.2f}"
OtEv(step_num, rank) ==
    <<W("[Step"), N(step_num), W("OpenTargets]"), W("Rank="), N(rank), W(","), W("Score=")>>

\* f"[Step {step_num} Lit] ({count}篇) {summary}"
LitEv(step_num, count, summary) ==
    <<W("[Step"), N(step_num), W("Lit]"), N(count)>> \o summary

\* f"[Step {step_num} KG] {source_str} (Score={total_score:.1f})"
KgEv(step_num, sources) ==
    <<W("[Step"), N(step_num), W("KG]")>> \o [k \in 1..Len(sources) |-> W(sources[k])]
        \o <<W("(Score=")>>

\* (A) the omics evidence a history entry gives a gene
OmicsPart(G, step_num, entry) ==
    LET omics_res == IF entry.result.kind \in {"dict", "list"}
                     THEN entry.result.results ELSE <<>>
        hits == SelectSeq(omics_res,
                          LAMBDA it : /\ it.key \in {"gene_id", "gene"}
                                      /\ it.name # ""
                                      /\ it.stats
                                      /\ Upper(it.name) = G)
    IN [k \in 1..Len(hits) |-> OmicsEv(step_num)]

\* (B) the OpenTargets evidence: one string per record of the gene, with its rank
OtPart(G, step_num, entry) ==
    IF entry.step = "query_opentargets" /\ entry.result.kind = "list"
    THEN LET rows == entry.result.results
             ranks == SelectSeq([k \in 1..Len(rows) |-> k],
                                LAMBDA k : /\ rows[k].key = "symbol"
                                           /\ rows[k].name # ""
                                           /\ Upper(rows[k].name) = G)
         IN [k \in 1..Len(ranks) |-> OtEv(step_num, ranks[k])]
    ELSE <<>>

\* (C) the literature evidence: from gene_details when there are any, else
\* f"[Step {step_num} Lit] 检索到 {n_res} 篇文献(总计)" for the genes of the args
\* (genes, a string made a list, and gene) when n_results is positive
LitPart(G, step_num, entry) ==
    IF entry.step \in {"search_literature", "search_pubmed_mongo"}
    THEN IF entry.result.gene_details # <<>>
         THEN LET hits == SelectSeq(entry.result.gene_details,
                                    LAMBDA d : d.count > 0 /\ Upper(d.gene) = G)
              IN [k \in 1..Len(hits) |-> LitEv(step_num, hits[k].count, hits[k].summary)]
         ELSE IF entry.result.n_results > 0
              THEN LET args == entry.args
                       target_genes ==
                           (CASE args.genes.kind = "list" -> args.genes.list
                              [] args.genes.kind = "str" -> <<args.genes.str>>
                              [] OTHER -> <<>>)
                           \o (IF args.gene # "" THEN <<args.gene>> ELSE <<>>)
                       hits == SelectSeq(target_genes, LAMBDA tg : tg # "" /\ Upper(tg) = G)
                   IN [k \in 1..Len(hits) |->
                          <<W("[Step"), N(step_num), W("Lit]"),
                            N(entry.result.n_results), W("total")>>]
              ELSE <<>>
    ELSE <<>>

\* (D) the knowledge graph evidence
KgPart(G, step_num, entry) ==
    IF entry.step = "query_kg"
    THEN LET hits == SelectSeq(entry.result.evidence,
                               LAMBDA e : e.sources # <<>> /\ Upper(e.gene) = G)
         IN [k \in 1..Len(hits) |-> KgEv(step_num, hits[k].sources)]
    ELSE <<>>

\* gene_evidence_map[G] after the steps from step_num on of the history
RECURSIVE EvidenceFrom(_, _, _)
EvidenceFrom(G, step_num, hist) ==
    IF step_num > Len(hist) THEN <<>>
    ELSE OmicsPart(G, step_num, hist[step_num]) \o OtPart(G, step_num, hist[step_num])
         \o LitPart(G, step_num, hist[step_num]) \o KgPart(G, step_num, hist[step_num])
         \o EvidenceFrom(G, step_num + 1, hist)

\* gene_evidence_map.get(gene_upper, [])
Evidences(gene_name, hist) == EvidenceFrom(Upper(gene_name), 1, hist)

\* int(e.split("Rank=")[1].split(",")[0]): the number that follows the first
\* "Rank="
RankOf(e) ==
    LET p == CHOOSE k \in 1..Len(e) : e[k].s = "Rank=" /\ \A j \in 1..(k - 1) : e[j].s # "Rank="
    IN e[p + 1].n

\* the cut-off of the novelty test
RankCutoff == 50

\* is_ot_known: "OpenTargets" in e and "Rank=" in e and int(...) <= 50 for
\* some evidence string e
IsOtKnown(evidences) ==
    \E k \in 1..Len(evidences) :
        /\ \E j \in 1..Len(evidences[k]) :
              evidences[k][j].s \in {"OpenTargets", "OpenTargets]"}
        /\ \E j \in 1..Len(evidences[k]) : evidences[k][j].s = "Rank="
        /\ RankOf(evidences[k]) <= RankCutoff

\* " | ".join(evidences), the text of reason_str after f"[{path_id}] "
RECURSIVE JoinBar(_)
JoinBar(evidences) ==
    IF evidences = <<>> THEN <<>>
    ELSE IF Len(evidences) = 1 THEN evidences[1]
    ELSE evidences[1] \o <<W("|")>> \o JoinBar(Tail(evidences))

\* "if not evidences: continue"
KeepsAll(evidences) == TRUE

Keeps(evidences) == evidences # <<>>

\* evidence_score: len(reason.split("|")); the path ids of the model hold no "|"
EvidenceScore(g, notes) ==
    IF notes[g].kind = "dict"
    THEN 1 + Cardinality({k \in 1..Len(notes[g].reason.text) :
                             notes[g].reason.text[k] = W("|")})
    ELSE 1

\* list.sort(key=evidence_score, reverse=True): stable, greater scores first
RECURSIVE SortInsert(_, _, _)
SortInsert(sorted, g, notes) ==
    IF sorted = <<>> THEN <<g>>
    ELSE IF EvidenceScore(Head(sorted), notes) >= EvidenceScore(g, notes)
         THEN <<Head(sorted)>> \o SortInsert(Tail(sorted), g, notes)
         ELSE <<g>> \o sorted

RECURSIVE SortByScore(_, _, _)
SortByScore(sorted, rest, notes) ==
    IF rest = <<>> THEN sorted
    ELSE SortByScore(SortInsert(sorted, Head(rest), notes), Tail(rest), notes)

\* _ensure_novelty_notes
EnsureNoveltyNotes(synthesis, hist, pid) ==
    LET candidates == synthesis.candidate_targets
        valid_candidates == SelectSeq(candidates, LAMBDA g : Keeps(Evidences(g, hist)))
        novelty_notes ==
            [g \in GeneNames |->
                IF \E k \in 1..Len(valid_candidates) : valid_candidates[k] = g
                THEN DictNote(~IsOtKnown(Evidences(g, hist)),
                              [path_id |-> pid, text |-> JoinBar(Evidences(g, hist))])
                ELSE NoNote]
    IN IF candidates = <<>> THEN synthesis
       ELSE [synthesis EXCEPT
                !.candidate_targets = SortByScore(<<>>, valid_candidates, novelty_notes),
                !.novelty_notes = novelty_notes]

-----------------------------------------------------------------------------
(* planner_system.py: execute_path_with_reflection *)

\* while i < len(steps) and i < 50
MaxIter == 50

\* every path captures results
IsVerifyPathNever(pid) == FALSE

\* str(path_id).startswith("verify_")
IsVerifyPath(pid) == pid # <<>> /\ Head(pid) = "verify_"

\* the paths the runner is started on: the planner's verification path, the
\* planner's discovery path, a path as plan_paths describes them, and a path with
\* a placeholder and two literature steps
InitialPaths ==
    { [path_id |-> VerifyPathId("TP53"),
       steps |-> << Step("query_opentargets", Args(ListGenes(<<"TP53">>), "")),
                    Step("search_literature", Args(ListGenes(<<"TP53">>), "")),
                    Step("run_omics", Args(ListGenes(<<"TP53">>), "")) >>],
      [path_id |-> DiscoveryPathId,
       steps |-> << Step("run_omics", NoArgs),
                    Step("query_kg", Args(StrGenes("<decide>"), "")),
                    Step("search_literature", Args(StrGenes("<decide>"), "")) >>],
      [path_id |-> <<"p1">>,
       steps |-> << Step("search_literature", Args(NoGenes, "TP53")),
                    BareStep("run_omics"),
                    BareStep("<decide>") >>],
      [path_id |-> <<"p2">>,
       steps |-> << BareStep("<decide>"),
                    Step("search_literature", Args(ListGenes(<<"TP53", "EGFR">>), "")),
                    Step("search_literature", Args(ListGenes(<<"EGFR", "MYC">>), "")) >>] }

\* the INSERT decisions the oracle may give
InsertDecisions ==
    { Decision("INSERT", "search_literature", Args(ListGenes(<<"EGFR", "MYC">>), "")),
      Decision("INSERT", "search_literature", Args(ListGenes(<<"TP53">>), "<decide>")),
      Decision("INSERT", "run_omics", NoArgs),
      Decision("INSERT", "query_mongo_local", Args(ListGenes(<<"TP53">>), "")),
      Decision("INSERT", "<decide>", NoArgs),
      Decision("INSERT", "", NoArgs) }

\* the environments of a run: a free one whose oracle answers with well-formed
\* decisions (at most MaxInserts INSERT decisions), a free one whose oracle also
\* answers with text that is no decision, and scripted ones, where the oracle
\* gives the same INSERT decision at every consultation and every tool call
\* returns the same result; in the free ones the tools return anything
Envs ==
    {[mode |-> m, answer |-> EmptyDict, genes |-> <<>>] : m \in {"free", "malformed"}}
    \cup {[mode |-> "scripted", answer |-> d, genes |-> <<"EGFR", "MYC">>] :
             d \in InsertDecisions}

\* what the oracle may reply at a consultation; in the mode "once" it gives its
\* decision while inserts are left and CONTINUE afterwards
OracleReplies ==
    CASE env.mode = "scripted" -> {Reply("plain", env.answer)}
      [] env.mode = "once" ->
             {Reply("plain", IF inserts_left > 0 THEN env.answer
                             ELSE Decision("CONTINUE", "", NoArgs))}
      [] env.mode = "malformed" ->
             {Reply(form, EmptyDict) : form \in {"empty", "garbage", "nonobject"}}
             \cup {Reply(form, d) : form \in {"plain", "fenced", "prose"},
                                    d \in {Decision("CONTINUE", "", NoArgs),
                                           Decision("STOP", "", NoArgs),
                                           Decision("OTHER", "", NoArgs), EmptyDict}}
      [] OTHER -> {Reply(form, d) : form \in {"plain", "fenced", "prose"},
                                   d \in {Decision("CONTINUE", "", NoArgs),
                                          Decision("STOP", "", NoArgs)}
                                          \cup (IF inserts_left > 0 THEN InsertDecisions ELSE {})}

\* what a called tool may do: return a result, or raise ("raise")
ToolOutcomes(step, args) ==
    IF env.mode \in {"scripted", "once"}
    THEN {[raised |-> FALSE, result |-> ToolRun(step, args, env.genes)]}
    ELSE {[raised |-> FALSE, result |-> r] : r \in ToolReturns(step, args)}
         \cup {[raised |-> TRUE, result |-> Result(step, TRUE, "")]}

\* what the synthesis call may return: {}, candidates under "candidate_targets"
\* and candidates under "candidates"
SynthesisOutputs ==
    IF env.mode \in {"fusion", "once"} THEN {env.synthesis}
    ELSE { EmptySynthesis,
           Synthesis("candidate_targets", <<"TP53", "EGFR">>, NoNotes),
           Synthesis("candidates", <<"TP53">>, NoNotes) }

\* the events of the run log
LogEntry(type, step, decision, reason) ==
    [type |-> type, step |-> step, decision |-> decision, reason |-> reason]

\* the calls of the collaborators, in call order: the consultations of the
\* oracle, the calls of executor.execute and the synthesis call; an oracle call
\* keeps whether its reply was text json.loads accepts, a call of execute the
\* genes the step asked for, the args handed over, whether the tool's run() was
\* reached and whether the call raised; every call keeps the index i it was made
\* at, an oracle call the name of the step at that index, the parsed answer and
\* the history it was given
OracleCall(pre, reply) ==
    [kind |-> "oracle", pre |-> pre, parsed |-> reply.form \notin {"empty", "garbage"},
     reached |-> FALSE, at |-> i, answer |-> safe_parse_json(reply),
     tool |-> CurrentStepName(steps, i), requested |-> <<>>, args |-> NoArgs, raised |-> FALSE,
     history |-> history]
ToolCall(tool, requested, args, reached, raised) ==
    [kind |-> "tool", pre |-> FALSE, parsed |-> FALSE, reached |-> reached, at |-> i,
     answer |-> EmptyDict,
     tool |-> tool, requested |-> requested, args |-> args, raised |-> raised,
     history |-> <<>>]
SynthesisCall(intermediate) ==
    [kind |-> "synthesis", pre |-> FALSE, parsed |-> FALSE, reached |-> FALSE, at |-> i,
     answer |-> EmptyDict,
     tool |-> "", requested |-> <<>>, args |-> NoArgs, raised |-> FALSE,
     history |-> intermediate]

\* what run_single_path returns: the runner's return value, or {"error": ...}
PathError ==
    [returned |-> TRUE, error |-> TRUE, path_id |-> <<>>, history |-> <<>>,
     synthesis |-> EmptySynthesis, steps |-> <<>>]
PathReturn(pid, hist, syn, q) ==
    [returned |-> TRUE, error |-> FALSE, path_id |-> pid, history |-> hist,
     synthesis |-> syn, steps |-> q]

\* where the runner goes when the loop has ended for the given reason
AfterLoopBoundIsError(reason) == IF reason = "bound" THEN "failed" ELSE "synth"

AfterLoop(reason) == "synth"

\* the loop ends: by its test, by a break, or by an exception
EndLoop(reason) ==
    /\ end_reason' = reason
    /\ rpc' = IF reason = "raised" THEN "failed" ELSE AfterLoop(reason)
    /\ path_result' = IF reason = "raised" \/ AfterLoop(reason) = "failed"
                      THEN PathError ELSE path_result

\* lines 116-123, once the pre-step decision is done: leave the loop, pass over a
\* step without a tool or with a placeholder, or go on to run the step
Dispatch(q) ==
    IF i >= Len(q) THEN "exhausted"
    ELSE IF q[i + 1].tool = "" \/ StartsWithLt(q[i + 1].tool) THEN "pass"
    ELSE "exec"

\* lines 106-123 for the oracle's decision d on the placeholder at index i
PreStep(q, d) ==
    LET h == HandleDecision(q, i, d, TRUE)
    IN [steps |-> h.steps,
        next |-> IF h.ret
                 THEN IF d.decision = "STOP" THEN "stop"
                      ELSE IF i >= Len(h.steps) THEN "exhausted"
                      ELSE IF h.steps[i + 1].tool = "" THEN "raised"
                      ELSE IF StartsWithLt(h.steps[i + 1].tool) THEN "continue"
                      ELSE Dispatch(h.steps)
                 ELSE Dispatch(h.steps)]

\* the effect of the outcome of the loop head on the runner
Proceed(next) ==
    IF next \in {"stop", "exhausted", "raised"}
    THEN EndLoop(next) /\ UNCHANGED i
    ELSE /\ i' = IF next = "pass" THEN i + 1 ELSE i
         /\ rpc' = IF next = "exec" THEN "exec" ELSE "loop"
         /\ UNCHANGED <<end_reason, path_result>>

\* the queue length is the only limit
LoopTestWithoutBound(q, idx) == idx < Len(q)

\* while i < len(steps) and i < 50
LoopTest(q, idx) == idx < Len(q) /\ idx < MaxIter

\* one pass of the loop from its test to the step to run (lines 104-123)
LoopHead ==
    /\ rpc = "loop"
    /\ IF ~LoopTest(steps, i)
       THEN /\ EndLoop(IF i >= Len(steps) THEN "exhausted" ELSE "bound")
            /\ UNCHANGED <<steps, i, logs, calls, iters, inserts_left>>
       ELSE /\ iters < IterCap
            /\ iters' = iters + 1
            /\ IF ShouldCheck(steps, i, TRUE)
               THEN \E reply \in OracleReplies :
                      LET d == safe_parse_json(reply)
                          pre == PreStep(steps, d)
                      IN /\ calls' = Append(calls, OracleCall(TRUE, reply))
                         /\ inserts_left' = IF env.mode \in {"free", "once"} /\ d.decision = "INSERT"
                                            THEN inserts_left - 1 ELSE inserts_left
                         /\ IF ~d.isdict
                            THEN /\ EndLoop("raised")
                                 /\ UNCHANGED <<steps, i, logs>>
                            ELSE /\ logs' = Append(logs, LogEntry("decide", "", d.decision, ""))
                                 /\ steps' = pre.steps
                                 /\ Proceed(pre.next)
               ELSE /\ Proceed(Dispatch(steps))
                    /\ UNCHANGED <<steps, logs, calls, inserts_left>>
    /\ UNCHANGED <<path_id, env, history, active_genes_bus, searched_genes_history>>

\* the step at index i with its args as the runner leaves them: a dict step's
\* args are changed in place, a bare name's args are a fresh dict
WithArgs(q, args) ==
    IF q[i + 1].bare THEN q ELSE [q EXCEPT ![i + 1].args = args]

\* the bus keeps what it held and takes the new genes in as well
CaptureMerged(bus, new_genes) == bus \o new_genes

\* lines 166-168: 'if new_genes: active_genes_bus = new_genes'
Capture(bus, new_genes) == IF new_genes # <<>> THEN new_genes ELSE bus

\* lines 118-175: injection, the duplicate-request guard, the tool call, the
\* capture of the result and the history entry
ExecStep ==
    /\ rpc = "exec"
    /\ LET tool_name == steps[i + 1].tool
           injected == InjectContextGenes(tool_name, steps[i + 1].args, active_genes_bus)
           target_genes == TargetGenes(injected)
           new_genes == NewGenes(target_genes, searched_genes_history)
           guarded == tool_name = "search_literature"
           tool_args == IF guarded THEN [injected EXCEPT !.genes = ListGenes(new_genes)]
                        ELSE injected
       IN IF guarded /\ new_genes = <<>>
          THEN /\ logs' = Append(logs, LogEntry("skip", tool_name, "", "duplicate_genes"))
               /\ steps' = WithArgs(steps, injected)
               /\ i' = i + 1
               /\ rpc' = "loop"
               /\ UNCHANGED <<history, active_genes_bus, searched_genes_history, calls,
                              end_reason, path_result>>
          ELSE /\ steps' = WithArgs(steps, tool_args)
               /\ searched_genes_history' =
                    IF guarded THEN searched_genes_history \cup SeqToSet(new_genes)
                    ELSE searched_genes_history
               /\ LET early == ExecuteWithoutTool(tool_name, tool_args)
                  IN IF early.status # "call"
                     THEN /\ history' = Append(history, [step |-> tool_name, args |-> tool_args,
                                                         result |-> early])
                          /\ active_genes_bus' = active_genes_bus
                          /\ logs' = logs \o <<LogEntry("executing", tool_name, "", ""),
                                               LogEntry("step", tool_name, "", "")>>
                          /\ rpc' = "post"
                          /\ calls' = Append(calls, ToolCall(tool_name, target_genes, tool_args,
                                                             FALSE, FALSE))
                          /\ UNCHANGED <<end_reason, path_result>>
                     ELSE \E out \in ToolOutcomes(tool_name, tool_args) :
                          /\ calls' = Append(calls, ToolCall(tool_name, target_genes, tool_args,
                                                             TRUE, out.raised))
                          /\ IF out.raised
                             THEN /\ logs' = Append(logs, LogEntry("executing", tool_name, "", ""))
                                  /\ EndLoop("raised")
                                  /\ UNCHANGED <<history, active_genes_bus>>
                             ELSE /\ active_genes_bus' =
                                       IF ~IsVerifyPath(path_id)
                                       THEN Capture(active_genes_bus,
                                                    ExtractGenes(tool_name, out.result))
                                       ELSE active_genes_bus
                                  /\ history' = Append(history,
                                                       [step |-> tool_name, args |-> tool_args,
                                                        result |-> out.result])
                                  /\ logs' = logs \o <<LogEntry("executing", tool_name, "", ""),
                                                       LogEntry("step", tool_name, "", "")>>
                                  /\ rpc' = "post"
                                  /\ UNCHANGED <<end_reason, path_result>>
               /\ UNCHANGED i
    /\ UNCHANGED <<path_id, env, iters, inserts_left>>

\* the post-step decision with STOP taken as CONTINUE
PostOutcomeIgnoresStop(q, idx, reply) ==
    LET d == safe_parse_json(reply)
    IN [raised |-> ~d.isdict,
        steps |-> IF d.isdict THEN HandleDecision(q, idx, d, FALSE).steps ELSE q,
        stop |-> FALSE,
        i |-> IF d.isdict THEN idx + 1 ELSE idx]

\* lines 177-181 for the oracle's reply: whether the decision raises, the new
\* queue, whether the loop is left, and the new index
PostOutcome(q, idx, reply) ==
    LET d == safe_parse_json(reply)
        h == HandleDecision(q, idx, d, FALSE)
    IN IF ~d.isdict
       THEN [raised |-> TRUE, steps |-> q, stop |-> FALSE, i |-> idx]
       ELSE [raised |-> FALSE, steps |-> h.steps,
             stop |-> h.ret /\ d.decision = "STOP",
             i |-> IF h.ret /\ d.decision = "STOP" THEN idx ELSE idx + 1]

\* lines 177-181: the post-step decision
PostStep ==
    /\ rpc = "post"
    /\ \E reply \in OracleReplies :
         LET d == safe_parse_json(reply)
             out == PostOutcome(steps, i, reply)
         IN /\ calls' = Append(calls, OracleCall(FALSE, reply))
            /\ inserts_left' = IF env.mode \in {"free", "once"} /\ d.decision = "INSERT"
                               THEN inserts_left - 1 ELSE inserts_left
            /\ steps' = out.steps
            /\ i' = out.i
            /\ IF out.raised
               THEN EndLoop("raised") /\ UNCHANGED logs
               ELSE /\ logs' = Append(logs, LogEntry("decide", "", d.decision, ""))
                    /\ IF out.stop
                       THEN EndLoop("stop")
                       ELSE /\ rpc' = "loop"
                            /\ UNCHANGED <<end_reason, path_result>>
    /\ UNCHANGED <<path_id, env, history, active_genes_bus, searched_genes_history, iters>>

\* lines 183-188: the synthesis call and the return
Synthesize ==
    /\ rpc = "synth"
    /\ \E syn \in SynthesisOutputs :
         /\ calls' = Append(calls, SynthesisCall(history))
         /\ logs' = Append(logs, LogEntry("synthesis", "", "", ""))
         /\ path_result' = PathReturn(path_id, history,
                                      EnsureNoveltyNotes(syn, history, path_id), steps)
    /\ rpc' = "done"
    /\ UNCHANGED <<path_id, env, steps, i, history, active_genes_bus, searched_genes_history,
                   iters, inserts_left, end_reason>>

\* lines 94-103: the runner starts on a path
PathInit ==
    /\ \E p \in InitialPaths : path_id = p.path_id /\ steps = p.steps
    /\ env \in Envs
    /\ rpc = "loop"
    /\ i = 0
    /\ history = <<>>
    /\ active_genes_bus = <<>>
    /\ searched_genes_history = {}
    /\ logs = <<>>
    /\ calls = <<>>
    /\ iters = 0
    /\ inserts_left = MaxInserts
    /\ end_reason = "none"
    /\ path_result = NoPathResult
    /\ gpc = "executor"
    /\ user_input = <<"discover">>
    /\ task_understanding = [task_type |-> "discovery", target_gene |-> ""]
    /\ planned_paths = <<>>
    /\ path_results = <<>>
    /\ final_candidates = <<>>
    /\ PlaybookEmpty
    /\ ResourcesUnloaded
    /\ ExecutorIdle

PathNext ==
    \/ LoopHead /\ UNCHANGED <<gvars, pbvars, evars, tvars>>
    \/ ExecStep /\ UNCHANGED <<gvars, pbvars, evars, tvars>>
    \/ PostStep /\ UNCHANGED <<gvars, pbvars, evars, tvars>>
    \/ Synthesize /\ UNCHANGED <<gvars, pbvars, evars, tvars>>

SpecPath == PathInit /\ [][PathNext]_vars

\* what the deduplicator reads of a path result the runner returned, or of the
\* {"error": ...} that stands for a runner that raised: the error key and
\* pr.get("synthesis") or {}
PathResultView(pr) ==
    [error |-> pr.error,
     candidate_targets |-> pr.synthesis.candidate_targets,
     candidates |-> pr.synthesis.candidates,
     novelty_notes |-> pr.synthesis.novelty_notes]

-----------------------------------------------------------------------------
(* Evidence fusion on its own: the runner stands before the synthesis call   *)
(* with a history of at most MaxFusionSteps entries, each what a tool of the *)
(* registry returns, and the synthesis call returns a given synthesis.       *)

MaxFusionSteps == 3

\* a history entry
Entry(step, args, result) == [step |-> step, args |-> args, result |-> result]

FusionEntries ==
    { Entry("run_omics", NoArgs, OmicsRun(NoArgs, <<"TP53", "EGFR">>, TRUE)),
      Entry("run_omics", Args(ListGenes(<<"TP53", "MYC">>), ""),
            OmicsRun(Args(ListGenes(<<"TP53", "MYC">>), ""), <<>>, TRUE)),
      Entry("query_opentargets", NoArgs, OpenTargetsRun(<<"EGFR", "TP53">>)),
      Entry("query_opentargets", NoArgs,
            OpenTargetsRun([k \in 1..(RankCutoff - 1) |-> "GENE"] \o <<"TP53", "EGFR">>)),
      Entry("search_literature", Args(ListGenes(<<"TP53", "EGFR">>), ""),
            MongoLocalRun(Args(ListGenes(<<"TP53", "EGFR">>), ""), {"TP53"}, PlainSummary)),
      Entry("search_literature", Args(ListGenes(<<"EGFR">>), ""),
            MongoLocalRun(Args(ListGenes(<<"EGFR">>), ""), {"EGFR"},
                          <<W("driver"), W("|"), W("poor"), W("|"), W("target")>>)),
      Entry("search_literature", Args(ListGenes(<<"TP53">>), ""),
            MongoLocalRun(Args(ListGenes(<<"TP53">>), ""), {"TP53"},
                          <<W("OpenTargets"), W("Rank="), N(1), W(","), W("validated")>>)),
      Entry("query_kg", NoArgs, KgRun(<<"EGFR">>)),
      Entry("query_opentargets", NoArgs, ToolError("query_opentargets")) }

\* the syntheses the synthesis call returns
FusionSyntheses ==
    { EmptySynthesis,
      Synthesis("candidates", <<"TP53">>, NoNotes) }
    \cup { Synthesis("candidate_targets", c, NoNotes) :
              c \in { <<"TP53">>, <<"EGFR">>, <<"TP53", "EGFR">>, <<"EGFR", "TP53">>,
                      <<"tp53", "TP53">>, <<"tp53", "EGFR", "TP53">> } }

FusionInit ==
    /\ path_id = <<"p1">>
    /\ history \in UNION {[1..n -> FusionEntries] : n \in 0..MaxFusionSteps}
    /\ steps = [k \in 1..Len(history) |-> Step(history[k].step, history[k].args)]
    /\ i = Len(history)
    /\ \E syn \in FusionSyntheses :
          env = [mode |-> "fusion", answer |-> EmptyDict, genes |-> <<>>, synthesis |-> syn]
    /\ rpc = "synth"
    /\ active_genes_bus = <<>>
    /\ searched_genes_history = {}
    /\ logs = <<>>
    /\ calls = <<>>
    /\ iters = Len(history)
    /\ inserts_left = 0
    /\ end_reason = "exhausted"
    /\ path_result = NoPathResult
    /\ gpc = "executor"
    /\ user_input = <<"discover">>
    /\ task_understanding = [task_type |-> "discovery", target_gene |-> ""]
    /\ planned_paths = <<>>
    /\ path_results = <<>>
    /\ final_candidates = <<>>
    /\ PlaybookEmpty
    /\ ResourcesUnloaded
    /\ ExecutorIdle

FusionNext == Synthesize /\ UNCHANGED <<gvars, pbvars, evars, tvars>>

SpecFusion == FusionInit /\ [][FusionNext]_vars

-----------------------------------------------------------------------------
(* graph_system.py: executor (the thread pool and run_single_path) *)

\* ThreadPoolExecutor(max_workers=5)
PoolSize == 5

\* an event a runner appends to its local_logs: the k-th event of path p
LogEvent(p, k) == [path |-> p, n |-> k]

\* n submitted paths, of each its future, its runner's local_logs, whether its runner raised
Submitted(n) == [p \in 1..n |-> [state |-> "queued", local_logs |-> <<>>, raised |-> FALSE]]

\* what run_single_path returns as res: the runner's return value, or
\* {"error": err_msg} when the runner raised
RunSinglePath(pid, raised) ==
    IF raised THEN PathError ELSE PathReturn(pid, <<>>, EmptySynthesis, <<>>)

\* whether future.result() raises: run_single_path catches every Exception of
\* the runner, so it never does
FutureRaisesUncaught(raised) == raised

FutureRaises(raised) == FALSE

\* logs.extend(l_logs)
ExtendReversed(list, l_logs) ==
    list \o [k \in 1..Len(l_logs) |-> l_logs[Len(l_logs) + 1 - k]]

Extend(list, l_logs) == list \o l_logs

\* the workers that hold a pool thread
Running == {p \in DOMAIN workers : workers[p].state = "running"}

\* a pool thread takes a queued path and starts run_single_path
WorkerStarts(p) ==
    /\ epc = "pool"
    /\ workers[p].state = "queued"
    /\ Cardinality(Running) < PoolSize
    /\ workers' = [workers EXCEPT ![p].state = "running"]
    /\ UNCHANGED <<epc, exec_results, agg_logs>>

\* the runner of path p appends an event to its own local_logs
WorkerLogs(p) ==
    /\ epc = "pool"
    /\ workers[p].state = "running"
    /\ Len(workers[p].local_logs) < MaxEvents
    /\ workers' = [workers EXCEPT
                     ![p].local_logs = Append(@, LogEvent(p, Len(@) + 1))]
    /\ UNCHANGED <<epc, exec_results, agg_logs>>

\* the runner of path p returns, or raises and is caught at line 134
WorkerEnds(p, raised) ==
    /\ epc = "pool"
    /\ workers[p].state = "running"
    /\ workers' = [workers EXCEPT ![p].state = "done", ![p].raised = raised]
    /\ UNCHANGED <<epc, exec_results, agg_logs>>

\* as_completed yields the future of path p: lines 145-150
Collect(p) ==
    /\ epc = "pool"
    /\ workers[p].state = "done"
    /\ workers' = [workers EXCEPT ![p].state = "collected"]
    /\ IF FutureRaises(workers[p].raised)
       THEN UNCHANGED <<exec_results, agg_logs>>
       ELSE /\ exec_results' =
                 Append(exec_results,
                        [path |-> p,
                         res |-> RunSinglePath(PlannedPathIds(Len(workers))[p],
                                               workers[p].raised)])
            /\ agg_logs' = Extend(agg_logs, workers[p].local_logs)
    /\ UNCHANGED epc

\* the node returns without waiting for the paths
ExecutorNodeReturnsEarly ==
    /\ epc = "pool"
    /\ epc' = "returned"
    /\ UNCHANGED <<workers, exec_results, agg_logs>>

\* every future has been yielded (or there were no paths): lines 124-126, 152-155
ExecutorNodeReturns ==
    /\ epc = "pool"
    /\ \A p \in DOMAIN workers : workers[p].state = "collected"
    /\ epc' = "returned"
    /\ UNCHANGED <<workers, exec_results, agg_logs>>

ExecutorInit ==
    /\ epc = "pool"
    /\ \E n \in 0..MaxSubmitted :
          /\ workers = Submitted(n)
          /\ planned_paths = PlannedPathIds(n)
    /\ exec_results = <<>>
    /\ agg_logs = <<>>
    /\ gpc = "executor"
    /\ user_input = <<"discover">>
    /\ task_understanding = [task_type |-> "discovery", target_gene |-> ""]
    /\ path_results = <<>>
    /\ final_candidates = <<>>
    /\ PlaybookEmpty
    /\ ResourcesUnloaded
    /\ RunnerIdle

ExecutorNext ==
    \/ \E p \in DOMAIN workers : WorkerStarts(p) /\ UNCHANGED <<gvars, pbvars, rvars, tvars>>
    \/ \E p \in DOMAIN workers : WorkerLogs(p) /\ UNCHANGED <<gvars, pbvars, rvars, tvars>>
    \/ \E p \in DOMAIN workers : \E raised \in BOOLEAN :
          WorkerEnds(p, raised) /\ UNCHANGED <<gvars, pbvars, rvars, tvars>>
    \/ \E p \in DOMAIN workers : Collect(p) /\ UNCHANGED <<gvars, pbvars, rvars, tvars>>
    \/ ExecutorNodeReturns /\ UNCHANGED <<gvars, pbvars, rvars, tvars>>

SpecExecutor == ExecutorInit /\ [][ExecutorNext]_vars

-----------------------------------------------------------------------------
(* playbook.py: Playbook *)

\* texts are sequences of tokens; "-" is the character the fingerprint joins with
\* the traces add_strategy is called with
Traces ==
    [task : { <<"a">>, <<"a", "-", "b">> },
     status : { <<"success">>, <<"failure">>, <<"b", "-", "success">> },
     steps_summary : { <<>>, <<"run_omics", "query_kg">> }]

\* repr of a step name inside str(list)
Repr(x) == <<"'", x, "'">>

RECURSIVE ReprJoin(_)
ReprJoin(l) ==
    IF l = <<>> THEN <<>>
    ELSE IF Len(l) = 1 THEN Repr(Head(l))
    ELSE Repr(Head(l)) \o <<", ">> \o ReprJoin(Tail(l))

\* str(trace_data.get('steps_summary'))
StrOfList(l) == <<"[">> \o ReprJoin(l) \o <<"]">>

\* hashlib.md5(fingerprint.encode()).hexdigest(), taken to be free of collisions
Md5(text) == <<"md5", text>>

FingerprintNoStatus(trace_data) ==
    Md5(trace_data.task \o <<"-">> \o StrOfList(trace_data.steps_summary))

\* f"{task}-{status}-{str(steps_summary)}", hashed
Fingerprint(trace_data) ==
    Md5(trace_data.task \o <<"-">> \o trace_data.status \o <<"-">>
        \o StrOfList(trace_data.steps_summary))

\* str(uuid.uuid4())[:8]
EntryIds == {"id1", "id2"}

\* the fingerprint test finds nothing
HasFingerprintNever(list, fp) == FALSE

\* for s in self.strategies: if s.get("fingerprint") == fingerprint_hash
HasFingerprint(list, fp) == \E k \in 1..Len(list) : list[k].fingerprint = fp

\* Playbook.add_strategy, with its save()
AddStrategy(trace_data, id) ==
    /\ Len(add_calls) < MaxAdds
    /\ add_calls' = Append(add_calls, trace_data)
    /\ UNCHANGED retrieval
    /\ IF HasFingerprint(strategies, Fingerprint(trace_data))
       THEN UNCHANGED <<strategies, playbook_file>>
       ELSE LET entry == [id |-> id, type |-> "execution_trace",
                          fingerprint |-> Fingerprint(trace_data), data |-> trace_data]
            IN /\ strategies' = Append(strategies, entry)
               /\ playbook_file' = Append(strategies, entry)

PlaybookInit ==
    /\ PlaybookEmpty
    /\ ResourcesUnloaded
    /\ ExecutorIdle
    /\ gpc = "curator"
    /\ user_input = <<"discover">>
    /\ task_understanding = [task_type |-> "discovery", target_gene |-> ""]
    /\ planned_paths = <<>>
    /\ path_results = <<>>
    /\ final_candidates = <<>>
    /\ RunnerIdle

PlaybookNext ==
    \E trace_data \in Traces : \E id \in EntryIds :
        AddStrategy(trace_data, id) /\ UNCHANGED <<gvars, rvars, evars, tvars>>

SpecPlaybook == PlaybookInit /\ [][PlaybookNext]_vars

-----------------------------------------------------------------------------
(* graph_system.py: a run of the graph from the executor node to the end:    *)
(* the thread pool, the synthesizer and the curator                          *)

\* the curator's "for path_res in path_results": one pass of the loop with its
\* add_strategy call, or the return of the node; the steps of a path result are
\* not kept by the model
Curator ==
    /\ gpc = "curator"
    /\ IF Len(add_calls) < Len(path_results)
       THEN LET path_res == path_results[Len(add_calls) + 1]
                status == IF path_res.error \/ path_res.candidate_targets = <<>>
                          THEN <<"failure">> ELSE <<"success">>
            IN /\ \E id \in EntryIds :
                    AddStrategy([task |-> user_input, status |-> status,
                                 steps_summary |-> <<>>], id)
               /\ UNCHANGED gpc
       ELSE /\ gpc' = "end"
            /\ UNCHANGED pbvars
    /\ UNCHANGED <<user_input, task_understanding, planned_paths, path_results,
                   final_candidates>>

RunNext ==
    \/ ExecutorNext
    \/ /\ gpc = "executor"
       /\ epc = "returned"
       /\ path_results' = [k \in 1..Len(exec_results) |-> PathResultView(exec_results[k].res)]
       /\ gpc' = "synthesizer"
       /\ UNCHANGED <<user_input, task_understanding, planned_paths, final_candidates>>
       /\ UNCHANGED <<pbvars, rvars, evars, tvars>>
    \/ Synthesizer
    \/ Curator /\ UNCHANGED <<rvars, evars, tvars>>

SpecRun == ExecutorInit /\ [][RunNext]_vars

-----------------------------------------------------------------------------
(* tools/mongo_local_tool.py: the shared model and index of the literature   *)
(* tool, used by the path threads of the executor node. One ToolExecutor and *)
(* one MongoLocalTool serve all paths; the globals are read and written      *)
(* without a lock, so the threads interleave between statements.             *)

\* threads that call _search_local_core at the same time (the pool runs up to
\* PoolSize paths)
MaxSearchers == 2

\* _ensure_resources, statement by statement, in thread t; the collection is
\* connected
EnsureResources(t) ==
    LET me == searchers[t]
    IN \/ /\ me.pc = "ensure"                                   \* line 66
          /\ searchers' = [searchers EXCEPT
                 ![t].pc = IF GLOBAL_MODEL = 0 THEN "load_model" ELSE "check_index"]
          /\ UNCHANGED <<GLOBAL_MODEL, GLOBAL_INDEX, GLOBAL_DOC_MAP>>
       \/ /\ me.pc = "load_model"                               \* lines 67-71
          /\ \E ok \in BOOLEAN : GLOBAL_MODEL' = IF ok THEN t ELSE GLOBAL_MODEL
          /\ searchers' = [searchers EXCEPT ![t].pc = "check_index", ![t].loaded = TRUE]
          /\ UNCHANGED <<GLOBAL_INDEX, GLOBAL_DOC_MAP>>
       \/ /\ me.pc = "check_index"                              \* line 73
          /\ searchers' = [searchers EXCEPT
                 ![t].pc = IF GLOBAL_INDEX = 0 THEN "build" ELSE "guard"]
          /\ UNCHANGED <<GLOBAL_MODEL, GLOBAL_INDEX, GLOBAL_DOC_MAP>>
       \/ /\ me.pc = "build"                                    \* lines 74-100, 109-110
          /\ \E scan \in {"vectors", "no_vectors", "raised"} :
                searchers' = [searchers EXCEPT
                    ![t].pc = CASE scan = "vectors" -> "assign_index"
                                [] scan = "no_vectors" -> "clear_index"
                                [] OTHER -> "guard",
                    ![t].built = TRUE]
          /\ UNCHANGED <<GLOBAL_MODEL, GLOBAL_INDEX, GLOBAL_DOC_MAP>>
       \/ /\ me.pc \in {"assign_index", "clear_index"}          \* lines 102, 107
          /\ GLOBAL_INDEX' = IF me.pc = "assign_index" THEN t ELSE 0
          /\ searchers' = [searchers EXCEPT
                 ![t].pc = IF me.pc = "assign_index" THEN "assign_doc_map" ELSE "clear_doc_map"]
          /\ UNCHANGED <<GLOBAL_MODEL, GLOBAL_DOC_MAP>>
       \/ /\ me.pc \in {"assign_doc_map", "clear_doc_map"}      \* lines 103, 108
          /\ GLOBAL_DOC_MAP' = IF me.pc = "assign_doc_map" THEN t ELSE 0
          /\ searchers' = [searchers EXCEPT ![t].pc = "guard"]
          /\ UNCHANGED <<GLOBAL_MODEL, GLOBAL_INDEX>>

\* the rest of _search_local_core in thread t: the guard of line 122, the
\* encoding of the query and the search in the index; "seen" is the index and
\* the document list the search read
SearchLocalCore(t) ==
    LET me == searchers[t]
    IN /\ \/ /\ me.pc = "guard"                                 \* lines 122-123
             /\ searchers' = [searchers EXCEPT
                    ![t].pc = IF GLOBAL_INDEX = 0 \/ GLOBAL_DOC_MAP = 0
                              THEN "returned_empty" ELSE "encode"]
          \/ /\ me.pc = "encode"                                \* lines 126, 161-163
             /\ searchers' = [searchers EXCEPT
                    ![t].pc = IF GLOBAL_MODEL = 0 THEN "returned_empty" ELSE "search"]
          \/ /\ me.pc = "search"                                \* lines 128-160
             /\ searchers' = [searchers EXCEPT
                    ![t].pc = "returned",
                    ![t].seen = [index |-> GLOBAL_INDEX, doc_map |-> GLOBAL_DOC_MAP]]
       /\ UNCHANGED <<GLOBAL_MODEL, GLOBAL_INDEX, GLOBAL_DOC_MAP>>

\* the first use of the tool in a process, by 1..MaxSearchers path threads
LiteratureInit ==
    /\ GLOBAL_MODEL = 0
    /\ GLOBAL_INDEX = 0
    /\ GLOBAL_DOC_MAP = 0
    /\ \E n \in 1..MaxSearchers :
          searchers = [t \in 1..n |-> [pc |-> "ensure", loaded |-> FALSE, built |-> FALSE,
                                       seen |-> [index |-> 0, doc_map |-> 0]]]
    /\ gpc = "executor"
    /\ user_input = <<"discover">>
    /\ task_understanding = [task_type |-> "discovery", target_gene |-> ""]
    /\ planned_paths = PlannedPathIds(Len(searchers))
    /\ path_results = <<>>
    /\ final_candidates = <<>>
    /\ strategies = <<>>
    /\ playbook_file = <<>>
    /\ add_calls = <<>>
    /\ retrieval = [query |-> <<>>, top_k |-> 0, results |-> <<>>]
    /\ ExecutorIdle
    /\ RunnerIdle

LiteratureNext ==
    \/ \E t \in DOMAIN searchers : EnsureResources(t) /\ UNCHANGED <<gvars, pbvars, rvars, evars>>
    \/ \E t \in DOMAIN searchers : SearchLocalCore(t) /\ UNCHANGED <<gvars, pbvars, rvars, evars>>

SpecLiterature == LiteratureInit /\ [][LiteratureNext]_vars

-----------------------------------------------------------------------------
(* playbook.py: retrieve_strategies. Texts are sequences of characters.      *)

\* str.lower() on the characters the texts of the model are written with
Lower(text) ==
    [k \in 1..Len(text) |-> CASE text[k] = "A" -> "a" [] text[k] = "B" -> "b" [] OTHER -> text[k]]

\* Python's "sub in text" on strings
Contains(sub, text) ==
    \E k \in 0..(Len(text) - Len(sub)) : SubSeq(text, k + 1, k + Len(sub)) = sub

\* the score of entry s for the query, lines 85-119; an entry with neither
\* 'content' nor 'data' is passed over, which is a score of 0 here
Score(s, query) ==
    LET content_text == IF "content" \in DOMAIN s THEN s.content
                        ELSE s.data.task \o <<" ">> \o
                             (IF "conclusion" \in DOMAIN s.data THEN s.data.conclusion ELSE <<>>)
        category_text == IF "content" \in DOMAIN s
                         THEN (IF "category" \in DOMAIN s THEN s.category ELSE <<>>)
                         ELSE <<"e", "x", "e", "c", "u", "t", "i", "o", "n", "_",
                                "t", "r", "a", "c", "e">>
        query_lower == Lower(query)
        content_lower == Lower(content_text)
        category_lower == Lower(category_text)
    IN IF ~("content" \in DOMAIN s \/ "data" \in DOMAIN s) THEN 0
       ELSE (IF Contains(query_lower, content_lower) \/ Contains(content_lower, query_lower)
             THEN 10 ELSE 0)
          + (IF Contains(category_lower, query_lower) THEN 5 ELSE 0)
          + (IF Len(query_lower) >= 2
             THEN Cardinality({k \in 1..(Len(query_lower) - 1) :
                                  Contains(SubSeq(query_lower, k, k + 1), content_lower)})
             ELSE 0)

\* the scored entries left in the order of the store
Unsorted(sorted, rest) == rest

\* scored.sort(key=lambda x: x[0], reverse=True): stable, greater scores first
RECURSIVE SortScored(_, _)
SortScored(sorted, rest) ==
    LET RECURSIVE Insert(_, _)
        Insert(l, x) == IF l = <<>> THEN <<x>>
                        ELSE IF Head(l).score >= x.score
                             THEN <<Head(l)>> \o Insert(Tail(l), x)
                             ELSE <<x>> \o l
    IN IF rest = <<>> THEN sorted
       ELSE SortScored(Insert(sorted, Head(rest)), Tail(rest))

\* the first top_k entries
Oldest(store, top_k) == Take(store, top_k)

\* self.strategies[-top_k:] for top_k >= 1: line 128
Recent(store, top_k) ==
    SubSeq(store, IF Len(store) > top_k THEN Len(store) - top_k + 1 ELSE 1, Len(store))

\* retrieve_strategies(query, top_k) on the store, for top_k >= 1
RetrieveStrategies(store, query, top_k) ==
    LET all == [k \in 1..Len(store) |-> [score |-> Score(store[k], query), s |-> store[k]]]
        scored == SelectSeq(all, LAMBDA x : x.score > 0)
        top == Take(SortScored(<<>>, scored), top_k)
        results == [k \in 1..Len(top) |-> top[k].s]
    IN IF store = <<>> THEN <<>>
       ELSE IF results = <<>> THEN Recent(store, top_k)
       ELSE results

\* entries of a store: knowledge entries with content and category, with
\* content only, a trace entry as add_strategy writes it, and an entry with
\* neither 'content' nor 'data'
StoreEntries ==
    { [id |-> 1, content |-> <<"a", "b">>],
      [id |-> 2, content |-> <<"A", "b", "a", "b">>, category |-> <<"B">>],
      [id |-> 3, content |-> <<"d", "d">>, category |-> <<"d">>],
      [id |-> 4, content |-> <<"c", "c">>, category |-> <<"c", "c">>],
      [id |-> 5, type |-> "execution_trace",
       data |-> [task |-> <<"a">>, status |-> <<"success">>, steps_summary |-> <<>>,
                 conclusion |-> <<"b">>]],
      [id |-> 6, type |-> "note"] }

Queries ==
    { <<>>, <<"a">>, <<"A", "B">>, <<"b", "a", "b">>, <<"c", "c", "c">>, <<"d", "x">>,
      <<"a", "b", "a", "b", "c", "c">>,
      <<"x">>, <<"a", " ", "b", "x">>,
      <<"e", "x", "e", "c", "u", "t", "i", "o", "n", "_", "t", "r", "a", "c", "e">> }

MaxStore == 3

MaxTopK == 3

\* a store as loaded from hcc_playbook.json, before any call
RetrieveInit ==
    /\ strategies \in UNION {[1..n -> StoreEntries] : n \in 0..MaxStore}
    /\ playbook_file = strategies
    /\ add_calls = <<>>
    /\ retrieval = [query |-> <<>>, top_k |-> 0, results |-> <<>>]
    /\ gpc = "planner"
    /\ user_input = <<"discover">>
    /\ task_understanding = [task_type |-> "none", target_gene |-> ""]
    /\ planned_paths = <<>>
    /\ path_results = <<>>
    /\ final_candidates = <<>>
    /\ ResourcesUnloaded
    /\ ExecutorIdle
    /\ RunnerIdle

RetrieveNext ==
    /\ retrieval.top_k = 0
    /\ \E query \in Queries : \E top_k \in 1..MaxTopK :
          retrieval' = [query |-> query, top_k |-> top_k,
                        results |-> RetrieveStrategies(strategies, query, top_k)]
    /\ UNCHANGED <<strategies, playbook_file, add_calls>>
    /\ UNCHANGED <<gvars, rvars, evars, tvars>>

SpecRetrieve == RetrieveInit /\ [][RetrieveNext]_vars

-----------------------------------------------------------------------------
(* Properties of the fusion: deDuplicate and the synthesizer *)

\* the candidate occurrences deDuplicate reads: <<path, position>> of every named
\* candidate of a path result without a path-level error
Occurrences ==
    {<<p, j>> \in (1..Len(path_results)) \X (1..(MaxTotalCands + 1)) :
        /\ ~path_results[p].error
        /\ j <= Len(CandsOf(path_results[p]))
        /\ CandsOf(path_results[p])[j] # ""}

OccGene(o) == CandsOf(path_results[o[1]])[o[2]]

\* the occurrence is marked known: its path's novelty notes say novel = false
OccKnown(o) ==
    LET note == path_results[o[1]].novelty_notes[OccGene(o)]
    IN note.kind # "absent" /\ ~note.novel

FinalWithKey(K) == {k \in 1..Len(final_candidates) : Upper(final_candidates[k].gene) = K}

Fused == gpc = "curator"

\* C4 (known overwrites novel): once the results are fused, for every candidate
\* occurrence that its path marks known, the merged entry of its case-folded key
\* has novel = false, wherever that occurrence stands among the path results.
C4_KnownOverwritesNovel ==
    Fused =>
        \A o \in Occurrences :
            OccKnown(o) =>
                \E k \in FinalWithKey(Upper(OccGene(o))) : ~final_candidates[k].novel

\* a key met first as novel in path 1 and then as known in path 2, fused
C4_Witness ==
    /\ Fused
    /\ \E o1, o2 \in Occurrences :
          /\ o1[1] = 1 /\ o2[1] = 2
          /\ Upper(OccGene(o1)) = Upper(OccGene(o2))
          /\ ~OccKnown(o1) /\ OccKnown(o2)
          /\ \A k \in FinalWithKey(Upper(OccGene(o1))) : ~final_candidates[k].novel

\* C5 (case-insensitive identity): the fused list holds exactly one entry for the
\* case-folded name of every candidate occurrence, and no entry for any other name.
C5_OneEntryPerKey ==
    Fused =>
        /\ \A o \in Occurrences : Cardinality(FinalWithKey(Upper(OccGene(o)))) = 1
        /\ \A k \in 1..Len(final_candidates) :
              \E o \in Occurrences : Upper(OccGene(o)) = Upper(final_candidates[k].gene)

\* "tp53" from one path and "TP53" from another, fused into one entry
C5_Witness ==
    /\ Fused
    /\ \E o1, o2 \in Occurrences :
          /\ o1[1] # o2[1]
          /\ OccGene(o1) = "tp53" /\ OccGene(o2) = "TP53"
    /\ Len(final_candidates) = 1

\* the fused list as the candidates of one path result, each with its novelty note
FeedBack(list) ==
    OkResult("candidate_targets",
             [k \in 1..Len(list) |-> list[k].gene],
             [g \in GeneNames |->
                 IF \E k \in 1..Len(list) : list[k].gene = g
                 THEN LET k == CHOOSE k \in 1..Len(list) : list[k].gene = g
                      IN DictNote(list[k].novel, list[k].reason)
                 ELSE NoNote])

\* C8 (idempotence): deduplicating the fused list, fed back as the candidates and
\* novelty notes of one path result, returns the fused list again.
C8_DedupIdempotent ==
    Fused => deDuplicate(<<FeedBack(final_candidates)>>) = final_candidates

\* a fused list of two entries, one of them known, that a second pass returns as is
C8_Witness ==
    /\ Fused
    /\ Len(final_candidates) = 2
    /\ \E k \in 1..2 : ~final_candidates[k].novel /\ final_candidates[k].reason # ""
    /\ deDuplicate(<<FeedBack(final_candidates)>>) = final_candidates

\* the run is a verification run: the planner's rule matched the user's input
VerificationRun == VerifyMatch(Strip(user_input)) # ""

FixedTarget == Upper(VerifyMatch(Strip(user_input)))

\* C6 (verification filter): in a verification run with fixed target G the final
\* candidate list has at most one entry, and its case-folded name is G.
C6_VerificationKeepsTarget ==
    Fused /\ VerificationRun =>
        /\ Len(final_candidates) <= 1
        /\ \A k \in 1..Len(final_candidates) : Upper(final_candidates[k].gene) = FixedTarget

\* a verification run whose path proposed the target and a companion gene
C6_Witness ==
    /\ Fused /\ VerificationRun
    /\ \E o1, o2 \in Occurrences :
          Upper(OccGene(o1)) = FixedTarget /\ Upper(OccGene(o2)) # FixedTarget
    /\ Len(final_candidates) = 1

-----------------------------------------------------------------------------
(* Properties of the playbook *)

StoredWith(fp) == {k \in 1..Len(strategies) : strategies[k].fingerprint = fp}

Called == {add_calls[n] : n \in 1..Len(add_calls)}

\* the number of the fields task, status, steps_summary in which two traces differ
FieldsDiffering(t1, t2) ==
    (IF t1.task # t2.task THEN 1 ELSE 0)
    + (IF t1.status # t2.status THEN 1 ELSE 0)
    + (IF t1.steps_summary # t2.steps_summary THEN 1 ELSE 0)

\* C7 (fingerprint dedup): however often add_strategy was called with a trace,
\* exactly one stored entry carries the fingerprint of its (task, status,
\* steps_summary); and two traces it was called with that differ in exactly one
\* of the three fields are stored as two different entries.
C7_FingerprintDedup ==
    /\ \A t \in Called : Cardinality(StoredWith(Fingerprint(t))) = 1
    /\ \A t1, t2 \in Called :
          FieldsDiffering(t1, t2) = 1 =>
              \E k1 \in StoredWith(Fingerprint(t1)) :
              \E k2 \in StoredWith(Fingerprint(t2)) : k1 # k2

\* a trace added twice and a trace differing from it in the status alone: two entries
C7_Witness ==
    /\ Len(add_calls) = 3
    /\ add_calls[1] = add_calls[2]
    /\ FieldsDiffering(add_calls[1], add_calls[3]) = 1
    /\ add_calls[1].status # add_calls[3].status
    /\ Len(strategies) = 2

-----------------------------------------------------------------------------
(* Properties of the path runner: execute_path_with_reflection *)

\* C1: when the oracle answers INSERT at every consultation, the runner's loop
\* begins at most MaxIter (50) passes before it ends and synthesis follows.
C1_AlwaysInsertWithinBound ==
    env.mode = "scripted" => iters <= MaxIter

\* the calls of executor.execute for search_literature, by position in calls
LitCalls ==
    {k \in 1..Len(calls) : calls[k].kind = "tool" /\ calls[k].tool = "search_literature"}

\* the genes handed over by the search_literature calls before call k
PassedBefore(k) ==
    UNION {SeqToSet(calls[j].args.genes.list) : j \in {n \in LitCalls : n < k}}

UnparseableReplies == {Reply("empty", EmptyDict), Reply("garbage", EmptyDict)}

ContinueReply == Reply("plain", Decision("CONTINUE", "", NoArgs))

\* C3: at a post-step decision an unparseable reply of the oracle has the effect
\* of CONTINUE: the same step queue, the same index (the next queued step), no
\* exception and no end of the loop; the history is not touched by the decision.
C3_UnparseableIsContinue ==
    rpc = "post" =>
        \A reply \in UnparseableReplies :
            /\ PostOutcome(steps, i, reply) = PostOutcome(steps, i, ContinueReply)
            /\ PostOutcome(steps, i, reply) =
                  [raised |-> FALSE, steps |-> steps, stop |-> FALSE, i |-> i + 1]

\* an unparseable reply came at a post-step decision and the runner went on to
\* invoke the next queued step
C3_Witness ==
    \E k \in 1..(Len(calls) - 1) :
        /\ calls[k].kind = "oracle" /\ ~calls[k].pre /\ ~calls[k].parsed
        /\ calls[k + 1].kind = "tool"
        /\ Len(history) = 2
        /\ i = 1 /\ i < Len(steps)
        /\ history[2].step = steps[i + 1].tool

\* the synthesis calls made so far, by position in calls
SynthesisCalls == {k \in 1..Len(calls) : calls[k].kind = "synthesis"}

C10_RaisedToolIsRecorded ==
    \A k \in 1..Len(calls) :
        (calls[k].kind = "tool" /\ calls[k].raised) =>
            /\ rpc # "failed"
            /\ ~path_result.error
            /\ \E h \in 1..Len(history) :
                  history[h].step = calls[k].tool /\ history[h].result.error

-----------------------------------------------------------------------------
(* Properties of the fusion, of the oracle and of the store: order, fail-open, *)
(* fingerprints                                                               *)

\* the rearrangements of a list
Perms(s) ==
    {[k \in 1..Len(s) |-> s[f[k]]] :
        f \in {g \in [1..Len(s) -> 1..Len(s)] :
                 \A a, b \in 1..Len(s) : g[a] = g[b] => a = b}}

\* a path result with its candidates rearranged
PermuteCands(pr) ==
    {[pr EXCEPT !.candidate_targets = c1, !.candidates = c2] :
        c1 \in Perms(pr.candidate_targets), c2 \in Perms(pr.candidates)}

\* the same path results in another order, each with its candidates in another order
Rearrangements(prs) ==
    UNION {{q \in [1..Len(p) -> UNION {PermuteCands(p[k]) : k \in 1..Len(p)}] :
              \A k \in 1..Len(p) : q[k] \in PermuteCands(p[k])} : p \in Perms(prs)}

\* C15: deDuplicate is order-independent: for every rearrangement of the path
\* results and of the candidates inside them it returns the same set of
\* {gene, novel, reason} entries.
C15_OrderIndependent ==
    \A q \in Rearrangements(path_results) :
        SeqToSet(deDuplicate(q)) = SeqToSet(deDuplicate(path_results))

\* the oracle outputs that are no well-formed decision: empty text, text without
\* JSON, JSON that is no object, an object without "decision", and a decision
\* outside CONTINUE, INSERT, STOP
MalformedReplies ==
    {Reply("empty", EmptyDict), Reply("garbage", EmptyDict), Reply("nonobject", EmptyDict),
     Reply("plain", EmptyDict), Reply("plain", Decision("OTHER", "", NoArgs))}

\* lines 106-123 for the oracle's reply at a pre-step decision: the new queue and
\* what the pass does next
PreOutcome(q, reply) ==
    LET d == safe_parse_json(reply)
    IN IF ~d.isdict THEN [steps |-> q, next |-> "raised"] ELSE PreStep(q, d)

\* C16: fail-open oracle: at a pre-step and at a post-step decision every output
\* that is no well-formed decision has the effect of CONTINUE on the queue and the
\* index, and the path does not fail.
C16_FailOpen ==
    /\ rpc = "post" =>
          \A reply \in MalformedReplies :
              /\ ~PostOutcome(steps, i, reply).raised
              /\ PostOutcome(steps, i, reply) = PostOutcome(steps, i, ContinueReply)
    /\ (rpc = "loop" /\ i < Len(steps) /\ i < MaxIter /\ ShouldCheck(steps, i, TRUE)) =>
          \A reply \in MalformedReplies :
              /\ PreOutcome(steps, reply).next # "raised"
              /\ PreOutcome(steps, reply) = PreOutcome(steps, ContinueReply)

\* C17: from an empty store, no two stored entries share a fingerprint, the
\* persisted list is the in-memory list, and an add_strategy call whose
\* fingerprint is already stored changes neither of them.
C17_NoSharedFingerprint ==
    /\ [](/\ \A j, k \in 1..Len(strategies) :
               strategies[j].fingerprint = strategies[k].fingerprint => j = k
          /\ playbook_file = strategies)
    /\ [][(/\ Len(add_calls') = Len(add_calls) + 1
           /\ HasFingerprint(strategies, Fingerprint(add_calls'[Len(add_calls')])))
          => (strategies' = strategies /\ playbook_file' = playbook_file)]_vars

\* the same trace was added twice and is stored once, in memory and on disk
C17_Witness ==
    /\ Len(add_calls) = 2
    /\ add_calls[1] = add_calls[2]
    /\ Len(strategies) = 1
    /\ strategies[1].data = add_calls[1]
    /\ playbook_file = strategies

-----------------------------------------------------------------------------
(* Properties of the executor node *)

\* the results recorded for path p, by position in the executor's list
ResultsOf(p) == {k \in 1..Len(exec_results) : exec_results[k].path = p}

\* C12: failure isolation: for N submitted paths the executor returns exactly N
\* results, one per path, whichever runners raise; a path whose runner did not
\* raise has its runner's return value as result; and until it returns the
\* executor can always go on.
C12_OneResultPerPath ==
    /\ \A p \in DOMAIN workers : Cardinality(ResultsOf(p)) <= 1
    /\ epc = "returned" =>
          /\ Len(exec_results) = Len(workers)
          /\ \A p \in DOMAIN workers :
                /\ Cardinality(ResultsOf(p)) = 1
                /\ \A k \in ResultsOf(p) :
                      exec_results[k].res.error = workers[p].raised
    /\ epc = "pool" => ENABLED ExecutorNext

\* three paths, the runner of one raised and the other two returned, and the
\* executor has returned three results
C12_Witness ==
    /\ epc = "returned"
    /\ Len(workers) = 3
    /\ Cardinality({p \in DOMAIN workers : workers[p].raised}) = 1
    /\ Len(exec_results) = 3
    /\ exec_results[1].res.error

\* C13: the result recorded for a path whose runner raised carries an error field
\* and the identifier of that path as its path id field.
C13_ErrorResultHasPathId ==
    \A k \in 1..Len(exec_results) :
        exec_results[k].res.error =>
            exec_results[k].res.path_id = PlannedPathIds(Len(workers))[exec_results[k].path]

\* C14: the aggregate log holds each path's events as one contiguous block, in the
\* order the path emitted them and complete, and only events of paths whose
\* runner has finished and whose result has been recorded.
C14_LogBlocksPerPath ==
    /\ \A a, b, c \in 1..Len(agg_logs) :
          (a < b /\ b < c /\ agg_logs[a].path = agg_logs[c].path) =>
              agg_logs[b].path = agg_logs[a].path
    /\ \A a \in 1..Len(agg_logs) :
          LET p == agg_logs[a].path
              first == CHOOSE b \in 1..Len(agg_logs) :
                          /\ agg_logs[b].path = p
                          /\ \A c \in 1..(b - 1) : agg_logs[c].path # p
          IN /\ workers[p].state = "collected"
             /\ ResultsOf(p) # {}
             /\ a - first + 1 \in 1..Len(workers[p].local_logs)
             /\ agg_logs[a] = workers[p].local_logs[a - first + 1]
    /\ \A p \in DOMAIN workers :
          Cardinality({a \in 1..Len(agg_logs) : agg_logs[a].path = p})
            = IF workers[p].state = "collected" THEN Len(workers[p].local_logs) ELSE 0

\* two paths ran at the same time, each emitted two events, the one that failed
\* was collected second, and the log holds the two blocks one after the other
C14_Witness ==
    /\ epc = "returned"
    /\ Len(workers) = 2
    /\ workers[1].raised /\ ~workers[2].raised
    /\ Len(agg_logs) = 4
    /\ agg_logs[1].path = 2 /\ agg_logs[2].path = 2
    /\ agg_logs[3] = LogEvent(1, 1) /\ agg_logs[4] = LogEvent(1, 2)


-----------------------------------------------------------------------------
(* Evidence fusion *)

\* the synthesis the synthesis call returned, before the fusion
RawSynthesis == env.synthesis

\* the candidates of the path result
FinalCandidates == path_result.synthesis.candidate_targets

\* a history entry holds a record on the gene that gives evidence: an omics
\* record with both statistics, an OpenTargets record, a literature detail
\* with a positive count, or knowledge graph evidence
Supports(entry, g) ==
    LET r == entry.result
    IN \/ /\ r.kind \in {"dict", "list"}
          /\ \E k \in 1..Len(r.results) :
                /\ r.results[k].key \in {"gene_id", "gene"}
                /\ r.results[k].stats
                /\ Upper(r.results[k].name) = Upper(g)
       \/ /\ entry.step = "query_opentargets"
          /\ \E k \in 1..Len(r.results) :
                r.results[k].key = "symbol" /\ Upper(r.results[k].name) = Upper(g)
       \/ /\ entry.step = "search_literature"
          /\ \E k \in 1..Len(r.gene_details) :
                r.gene_details[k].count > 0 /\ Upper(r.gene_details[k].gene) = Upper(g)
       \/ /\ entry.step = "query_kg"
          /\ \E k \in 1..Len(r.evidence) :
                r.evidence[k].sources # <<>> /\ Upper(r.evidence[k].gene) = Upper(g)

\* a result that carries an error and no data
ErrorOnly(r) ==
    r.error /\ r.results = <<>> /\ r.gene_details = <<>> /\ r.evidence = <<>>

\* C18: after the fusion every candidate of candidate_targets has evidence from
\* an entry of the path's history whose result is more than an error, the
\* candidates kept are exactly the given candidates that have evidence, and no
\* candidate is kept when every result of the history carries only an error.
C18_NoCandidateWithoutEvidence ==
    (rpc = "done" /\ RawSynthesis.candidate_targets # <<>>) =>
        /\ \A k \in 1..Len(FinalCandidates) :
              \E n \in 1..Len(history) :
                  Supports(history[n], FinalCandidates[k]) /\ ~ErrorOnly(history[n].result)
        /\ SeqToSet(FinalCandidates) =
              {g \in SeqToSet(RawSynthesis.candidate_targets) :
                  \E n \in 1..Len(history) : Supports(history[n], g)}
        /\ (\A n \in 1..Len(history) : ErrorOnly(history[n].result)) => FinalCandidates = <<>>

\* a candidate without evidence was dropped and one with evidence kept, from a
\* history that also holds a result carrying only an error
C18_Witness ==
    /\ rpc = "done"
    /\ RawSynthesis.candidate_targets = <<"EGFR", "TP53">>
    /\ FinalCandidates = <<"TP53">>
    /\ \E n \in 1..Len(history) : ErrorOnly(history[n].result)

\* some query_opentargets result of the history ranks the gene at the cut-off
\* or better
RankedWithinCutoff(g) ==
    \E n \in 1..Len(history) :
        /\ history[n].step = "query_opentargets"
        /\ \E k \in 1..Len(history[n].result.results) :
              /\ k <= RankCutoff
              /\ history[n].result.results[k].key = "symbol"
              /\ Upper(history[n].result.results[k].name) = Upper(g)

\* C19: a retained candidate is labelled known (novel = false) exactly when some
\* query_opentargets result of the path's history ranks it at position 50 or
\* better, and novel otherwise.
C19_KnownIffRankedWithinCutoff ==
    (rpc = "done" /\ RawSynthesis.candidate_targets # <<>>) =>
        \A k \in 1..Len(FinalCandidates) :
            LET note == path_result.synthesis.novelty_notes[FinalCandidates[k]]
            IN /\ note.kind = "dict"
               /\ ~note.novel <=> RankedWithinCutoff(FinalCandidates[k])

\* the number of evidence items of a candidate
EvidenceCount(g) == Len(Evidences(g, history))

\* C20: the candidate list the fusion returns is sorted by descending number of
\* evidence items: no candidate precedes one that has strictly more.
C20_SortedByEvidenceCount ==
    (rpc = "done" /\ RawSynthesis.candidate_targets # <<>>) =>
        \A a, b \in 1..Len(FinalCandidates) :
            a < b => EvidenceCount(FinalCandidates[a]) >= EvidenceCount(FinalCandidates[b])

-----------------------------------------------------------------------------
(* Step-level errors and the deduplicator *)

\* every tool call of the path returned, and what it returned carries an error
AllStepsReturnedErrors ==
    /\ history # <<>>
    /\ \A n \in 1..Len(history) : history[n].result.error
    /\ \A k \in 1..Len(calls) : calls[k].kind = "tool" => ~calls[k].raised

\* every named candidate of a path result has an entry in the final list
Included(pr) ==
    \A k \in 1..Len(CandsOf(pr)) :
        CandsOf(pr)[k] # "" =>
            \E j \in 1..Len(deDuplicate(<<pr>>)) :
                Upper(deDuplicate(<<pr>>)[j].gene) = Upper(CandsOf(pr)[k])

\* C11: the deduplicator leaves out a path result exactly when it carries an
\* error at the path-result level; a path whose tool calls all returned results
\* with an error ends with a result that has a synthesis and no path-level
\* error, and the deduplicator takes its candidates.
C11_StepErrorsDoNotExcludePath ==
    /\ path_result.returned =>
          /\ path_result.error => deDuplicate(<<PathResultView(path_result)>>) = <<>>
          /\ ~path_result.error => Included(PathResultView(path_result))
    /\ (rpc \in {"done", "failed"} /\ AllStepsReturnedErrors) =>
          /\ rpc = "done"
          /\ path_result.returned /\ ~path_result.error
          /\ \E syn \in SynthesisOutputs :
                path_result.synthesis = EnsureNoveltyNotes(syn, history, path_id)
          /\ Included(PathResultView(path_result))

-----------------------------------------------------------------------------
(* The context bus in a verification run *)

\* the args a step of the verification path of TP53 is authored with: the
\* planner's, or those of an INSERT decision naming the tool
AuthoredArgs(tool) ==
    {Args(ListGenes(<<"TP53">>), "")} \cup {d.args : d \in {x \in InsertDecisions : x.tool = tool}}

\* C21: in a verification path the bus stays empty whatever the tools return,
\* and every tool is called with the args its step was authored with: no gene a
\* tool returned takes the place of the fixed target.
C21_VerifyBusStaysEmpty ==
    (path_id # <<>> /\ Head(path_id) = "verify_") =>
        /\ active_genes_bus = <<>>
        /\ \A k \in 1..Len(calls) :
              calls[k].kind = "tool" => calls[k].args \in AuthoredArgs(calls[k].tool)
        /\ \A n \in 1..Len(history) : history[n].args \in AuthoredArgs(history[n].step)

\* a verification path went on to a step without genes after a tool had
\* returned genes the bus of a discovery path would capture
C21_Witness ==
    /\ path_id # <<>> /\ Head(path_id) = "verify_"
    /\ Len(history) >= 2
    /\ ExtractGenes(history[1].step, history[1].result) # <<>>
    /\ history[2].step = "run_omics"
    /\ history[2].args = NoArgs
    /\ history[Len(history)].args.genes = ListGenes(<<"TP53">>)

-----------------------------------------------------------------------------
(* The store during a run *)

\* C22: the store is written only in the curator, after every path runner of
\* the run has ended and its result has been taken: no add_strategy call is
\* made while a worker is queued or running, and a step of the run makes at
\* most one add_strategy call, each call being complete before the next.
C22_StoreWrittenAfterAllPaths ==
    [][ (add_calls' # add_calls \/ strategies' # strategies \/ playbook_file' # playbook_file) =>
           /\ gpc = "curator"
           /\ epc = "returned"
           /\ \A p \in DOMAIN workers : workers[p].state = "collected"
           /\ Len(add_calls') = Len(add_calls) + 1
           /\ playbook_file' = strategies' ]_vars

\* the curator has called add_strategy for each of two or more paths, one of
\* which raised
C22_Witness ==
    /\ gpc = "end"
    /\ Len(add_calls) >= 2
    /\ strategies # <<>>
    /\ \E p \in DOMAIN workers : workers[p].raised
    /\ \E p \in DOMAIN workers : ~workers[p].raised

-----------------------------------------------------------------------------
(* The shared resources of the literature tool *)

\* C23: under concurrent calls of the literature tool the shared model and
\* the search index are initialised exactly once: at most one thread loads the
\* model, at most one thread executes the build of the index, and no thread
\* is about to read the index while another thread has replaced the index and
\* not yet the document list that belongs to it.
C23_ResourcesInitialisedOnce ==
    /\ Cardinality({t \in DOMAIN searchers : searchers[t].loaded}) <= 1
    /\ Cardinality({t \in DOMAIN searchers : searchers[t].built}) <= 1
    /\ \A a, b \in DOMAIN searchers :
          ~(a # b /\ searchers[a].pc \in {"assign_doc_map", "clear_doc_map"}
                  /\ searchers[b].pc \in {"guard", "search"})

-----------------------------------------------------------------------------
(* Retrieval from the store *)

\* the last n entries of the store, n at most its length
LastEntries(n) ==
    LET m == IF n < Len(strategies) THEN n ELSE Len(strategies)
    IN [r \in 1..m |-> strategies[Len(strategies) - m + r]]

\* C24: for every top_k >= 1, retrieve_strategies on a non-empty store never
\* returns an empty list, and when no entry scores above zero it returns the
\* top_k most recently added entries (all entries when the store has fewer).
C24_NeverEmptyOnNonEmptyStore ==
    (retrieval.top_k >= 1 /\ strategies # <<>>) =>
        /\ retrieval.results # <<>>
        /\ (\A k \in 1..Len(strategies) : Score(strategies[k], retrieval.query) = 0) =>
              retrieval.results = LastEntries(retrieval.top_k)

\* a call with top_k = 2 on a store of three entries none of which scores
\* above zero has returned the second and the third
C24_Witness ==
    /\ retrieval.top_k = 2
    /\ Len(strategies) = 3
    /\ strategies[1] # strategies[2]
    /\ strategies[2] # strategies[3]
    /\ \A k \in 1..3 : Score(strategies[k], retrieval.query) = 0
    /\ retrieval.results = <<strategies[2], strategies[3]>>

\* the score as the description of retrieval gives it: 10 when the query and
\* the entry text contain one another in either direction, 5 when the category
\* occurs in the query, and 1 for every two-character window of the query that
\* occurs in the entry text, all on lower-cased texts; the text of a trace
\* entry is its task and conclusion, its category "execution_trace"
DescribedScore(s, query) ==
    LET q == Lower(query)
        text == Lower(IF "content" \in DOMAIN s THEN s.content
                      ELSE IF "data" \in DOMAIN s
                      THEN s.data.task \o <<" ">> \o s.data.conclusion
                      ELSE <<>>)
        category == Lower(IF "content" \in DOMAIN s
                          THEN (IF "category" \in DOMAIN s THEN s.category ELSE <<>>)
                          ELSE <<"e", "x", "e", "c", "u", "t", "i", "o", "n", "_",
                                 "t", "r", "a", "c", "e">>)
        windows == {k \in 1..(Len(q) - 1) : Contains(SubSeq(q, k, k + 1), text)}
    IN IF "content" \notin DOMAIN s /\ "data" \notin DOMAIN s THEN 0
       ELSE (IF Contains(q, text) \/ Contains(text, q) THEN 10 ELSE 0)
          + (IF Contains(category, q) THEN 5 ELSE 0)
          + Cardinality(windows)

-----------------------------------------------------------------------------
(* The loop of the runner: bound, oracle consultations, insertions, STOP *)

\* C26: for every behaviour of the oracle and every initial queue the loop of
\* the runner ends after a fixed maximum number of passes, whatever the growth
\* of the queue: no run begins more than MaxIter (50) passes, the bound of the
\* loop's test.
C26_LoopEndsWithinFixedBound ==
    rpc \in {"loop", "exec", "post", "synth", "done", "failed"} => iters <= MaxIter

\* the positions in calls of the oracle consultations made before a step and
\* after a step
PreConsultations == {k \in 1..Len(calls) : calls[k].kind = "oracle" /\ calls[k].pre}

PostConsultations == {k \in 1..Len(calls) : calls[k].kind = "oracle" /\ ~calls[k].pre}

\* C27: within a path the oracle is consulted exactly once after every tool
\* invocation, whatever the invocation gave: the call that follows a tool
\* invocation is a post-step consultation about the same step (it is pending
\* only while the runner is on its way to it); a post-step consultation is made
\* only directly after a tool invocation; a pre-step consultation is made only
\* about a placeholder; and no consultation is about a step that the
\* duplicate-request guard skipped: there are as many post-step consultations
\* as steps run, and a skip is followed by no call at the same index.
C27_OracleConsultedOncePerInvocation ==
    /\ \A k \in 1..Len(calls) :
          calls[k].kind = "tool" =>
             IF k = Len(calls) THEN rpc = "post"
             ELSE /\ (k + 1) \in PostConsultations
                  /\ calls[k + 1].at = calls[k].at
                  /\ calls[k + 1].tool = calls[k].tool
    /\ \A k \in PostConsultations : k > 1 /\ calls[k - 1].kind = "tool"
    /\ \A k \in PreConsultations : StartsWithLt(calls[k].tool)
    /\ Cardinality(PostConsultations) + (IF rpc = "post" THEN 1 ELSE 0)
          = Cardinality({n \in 1..Len(logs) : logs[n].type = "step"})
    /\ (logs # <<>> /\ logs[Len(logs)].type = "skip") =>
          \A k \in 1..Len(calls) : calls[k].at < i

\* the same for the runs in which no call has raised
C27_WithoutRaise ==
    end_reason # "raised" => C27_OracleConsultedOncePerInvocation

\* a run with a pre-step consultation about a placeholder, a step skipped by
\* the guard, and post-step consultations after a successful and after an
\* erroring invocation
C27_Reached ==
    /\ PreConsultations # {}
    /\ \E n \in 1..Len(logs) : logs[n].type = "skip"
    /\ \E a, b \in 1..Len(history) :
          /\ history[a].result.error
          /\ ~history[b].result.error
    /\ Cardinality(PostConsultations) >= 2
    /\ rpc = "done"

\* call c is a consultation of the given kind answered by INSERT naming a tool
IsInsert(c, pre) ==
    /\ c.kind = "oracle" /\ c.pre = pre
    /\ c.answer.isdict /\ c.answer.decision = "INSERT" /\ c.answer.tool # ""

\* the post-step consultations answered by INSERT naming a tool
PostInserts == {k \in PostConsultations : IsInsert(calls[k], FALSE)}

\* the first tool invocation after call k, 0 when there is none
NextInvocation(k) ==
    LET later == {m \in (k + 1)..Len(calls) : calls[m].kind = "tool"}
    IN IF later = {} THEN 0 ELSE CHOOSE m \in later : \A n \in later : m <= n

\* this step of the runner is a post-step consultation answered by INSERT
\* naming a tool
PostInsertTaken ==
    /\ rpc = "post"
    /\ Len(calls') = Len(calls) + 1
    /\ IsInsert(calls'[Len(calls')], FALSE)

\* the queue after the splice of the new step at index i + 1: the steps up to
\* index i, the new step tagged dynamic_insert, the steps that followed i
Spliced ==
    LET new == calls'[Len(calls')].answer
    IN /\ Len(steps') = Len(steps) + 1
       /\ SubSeq(steps', 1, i + 1) = SubSeq(steps, 1, i + 1)
       /\ steps'[i + 2] = [tool |-> new.tool, bare |-> FALSE, args |-> new.args,
                           reason |-> "dynamic_insert"]
       /\ SubSeq(steps', i + 3, Len(steps')) = SubSeq(steps, i + 2, Len(steps))

\* C28 as stated: after a post-step INSERT naming a tool at index i the queue
\* holds the new step at index i + 1 tagged dynamic_insert with all other
\* steps in their order, and the inserted step is the next step executed: the
\* next tool invocation of the path, if there is one, is the inserted step at
\* index i + 1.
C28_InsertedStepExecutedNext ==
    /\ [][PostInsertTaken => Spliced]_vars
    /\ [](\A k \in PostInserts :
            NextInvocation(k) # 0 =>
               /\ calls[NextInvocation(k)].at = calls[k].at + 1
               /\ calls[NextInvocation(k)].tool = calls[k].answer.tool)

\* the log since the last decide event consists of n skip events, the first
\* of them for search_literature
SkippedSinceDecision(n) ==
    /\ n >= 1 /\ Len(logs) > n
    /\ logs[Len(logs) - n].type = "decide"
    /\ \A j \in (Len(logs) - n + 1)..Len(logs) : logs[j].type = "skip"
    /\ logs[Len(logs) - n + 1].step = "search_literature"

\* C28 amended: the splice as stated, and the tool invocation that directly
\* follows the consultation is the inserted step at index i + 1, unless the
\* duplicate-request guard has skipped the inserted step (a search_literature
\* step, with a skip event in the log); when the inserted step is a placeholder
\* the oracle is consulted about it before anything is invoked.
C28_InsertedStepTakenUpNext ==
    [][ /\ PostInsertTaken => (Spliced /\ i' = i + 1)
        /\ (calls # <<>> /\ IsInsert(calls[Len(calls)], FALSE)
              /\ Len(calls') = Len(calls) + 1) =>
             LET c == calls[Len(calls)]
                 next == calls'[Len(calls')]
             IN \/ /\ next.kind = "tool"
                   /\ next.at = c.at + 1
                   /\ next.tool = c.answer.tool
                   /\ steps[i + 1].reason = "dynamic_insert"
                \/ /\ next.kind = "tool"
                   /\ c.answer.tool = "search_literature"
                   /\ next.at > c.at + 1
                   /\ SkippedSinceDecision(next.at - c.at - 1)
                \/ /\ next.kind = "oracle" /\ next.pre
                   /\ StartsWithLt(c.answer.tool)
                   /\ next.at = c.at + 1
                   /\ next.tool = c.answer.tool
                \/ /\ next.kind = "oracle" /\ next.pre
                   /\ c.answer.tool = "search_literature"
                   /\ next.at > c.at + 1
                   /\ SkippedSinceDecision(next.at - c.at - 1)
                \/ next.kind = "synthesis" ]_vars

\* a post-step INSERT at index 0 has put its step at index 1 of a queue of four,
\* the inserted step was invoked next, and the planner's steps after it
C28_Witness ==
    /\ 2 \in PostInserts
    /\ calls[2].at = 0
    /\ Len(steps) = 4
    /\ steps[2].reason = "dynamic_insert"
    /\ Len(history) = 4
    /\ history[2].step = calls[2].answer.tool
    /\ rpc = "done"

\* this step of the runner is a pre-step consultation answered by a decision
\* object
PreDecisionTaken ==
    /\ rpc = "loop"
    /\ Len(calls') = Len(calls) + 1
    /\ calls'[Len(calls')].kind = "oracle" /\ calls'[Len(calls')].pre
    /\ calls'[Len(calls')].answer.isdict

\* C29: when the step at index i is a placeholder, a pre-step INSERT naming a
\* tool puts the inserted step at index i in its place and a pre-step CONTINUE
\* (also the default of a decision without the key) removes it, both leaving
\* i, the history and every other queued step as they were; and no placeholder
\* is handed to executor.execute or is the step of a history entry.
C29_PlaceholderReplacedOrRemoved ==
    /\ [][PreDecisionTaken =>
            LET d == calls'[Len(calls')].answer
            IN /\ StartsWithLt(steps[i + 1].tool)
               /\ (d.decision = "INSERT" /\ d.tool # "") =>
                     /\ steps' = [steps EXCEPT ![i + 1] =
                                     [tool |-> d.tool, bare |-> FALSE, args |-> d.args,
                                      reason |-> "dynamic_insert"]]
                     /\ i' = i
                     /\ history' = history
               /\ d.decision \in {"CONTINUE", ""} =>
                     /\ Len(steps') = Len(steps) - 1
                     /\ \A n \in 1..Len(steps') :
                           steps'[n] = IF n <= i THEN steps[n] ELSE steps[n + 1]
                     /\ i' = i
                     /\ history' = history]_vars
    /\ [](/\ \A k \in 1..Len(calls) :
                calls[k].kind = "tool" => ~StartsWithLt(calls[k].tool)
          /\ \A n \in 1..Len(history) : ~StartsWithLt(history[n].step))

\* a path that began with a placeholder: the pre-step INSERT put its step at
\* index 0 of the queue, whose length is unchanged, and the step was run
C29_Witness ==
    /\ Len(calls) >= 2
    /\ IsInsert(calls[1], TRUE)
    /\ calls[1].at = 0
    /\ Len(steps) = 3
    /\ steps[1].reason = "dynamic_insert"
    /\ history # <<>>
    /\ history[1].step = calls[1].answer.tool

\* a path whose placeholder at index 2 was removed by a pre-step CONTINUE
C29_ContinueReached ==
    /\ \E k \in PreConsultations :
          /\ calls[k].answer.decision = "CONTINUE"
          /\ calls[k].at = 2
    /\ Len(steps) = 2
    /\ Len(history) = 2
    /\ end_reason = "exhausted"

\* the consultations answered by STOP
Stops ==
    {k \in 1..Len(calls) : calls[k].kind = "oracle" /\ calls[k].answer.isdict
                           /\ calls[k].answer.decision = "STOP"}

\* C30: after the oracle has answered STOP, before or after a step, the path
\* invokes no tool and consults the oracle no more: the one call that follows
\* is the synthesis call, on the history as it was; index, queue and history
\* stay as they were, and the returned result carries the whole queue, the
\* steps not yet executed among them.
C30_StopEndsThePath ==
    /\ [](\A k \in Stops :
            /\ end_reason = "stop"
            /\ \/ k = Len(calls) /\ rpc = "synth"
               \/ /\ k = Len(calls) - 1
                  /\ calls[Len(calls)].kind = "synthesis"
                  /\ calls[Len(calls)].history = history
                  /\ rpc = "done"
                  /\ ~path_result.error
                  /\ path_result.steps = steps
                  /\ path_result.history = history)
    /\ [][Stops # {} => (steps' = steps /\ i' = i /\ history' = history)]_vars

\* a path stopped after its first step has returned: one history entry, and
\* the two steps that were not executed are in the returned step list
C30_Witness ==
    /\ Stops # {}
    /\ \A k \in Stops : ~calls[k].pre
    /\ rpc = "done"
    /\ Len(history) = 1
    /\ Len(path_result.steps) = 3
    /\ i = 0

\* a path stopped at the pre-step decision about its placeholder, which is
\* still in the returned step list
C30_PreStopReached ==
    /\ \E k \in Stops : calls[k].pre
    /\ rpc = "done"
    /\ \E n \in 1..Len(path_result.steps) : StartsWithLt(path_result.steps[n].tool)

-----------------------------------------------------------------------------
(* Sequential execution within a path *)

\* the calls of executor.execute that returned, in call order: one per history
\* entry
Executed == SelectSeq(calls, LAMBDA c : c.kind = "tool" /\ ~c.raised)

\* C31: within one path the steps execute strictly sequentially in queue order:
\* the index i never decreases and never moves by more than one, it has advanced
\* by exactly one whenever the loop goes on after an executed step, every
\* executed step has a strictly greater index than the one executed before it,
\* and the history lists the executed steps in the order they occupy in the step
\* queue, each at the index it was executed at, up to the queue that is returned
C31_SequentialInQueueOrder ==
    /\ [][/\ i' \in {i, i + 1}
          /\ (rpc = "post" /\ rpc' = "loop") => i' = i + 1
          /\ (rpc = "exec" /\ rpc' = "post") => Len(history') = Len(history) + 1
          /\ rpc' = "done" => /\ path_result'.steps = steps
                              /\ path_result'.history = history]_vars
    /\ [](/\ Len(Executed) = Len(history)
          /\ \A k \in 1..Len(history) :
                /\ history[k].step = Executed[k].tool
                /\ Executed[k].at < Len(steps)
                /\ steps[Executed[k].at + 1].tool = history[k].step
          /\ \A k, l \in 1..Len(Executed) : k < l => Executed[k].at < Executed[l].at)

\* a finished path of three executed steps, one of them inserted by the oracle,
\* with a step passed over between two of them
C31_Witness ==
    /\ rpc = "done"
    /\ Len(history) = 3
    /\ \E k \in 1..Len(steps) : steps[k].reason = "dynamic_insert"
                                /\ \E l \in 1..3 : Executed[l].at = k - 1
    /\ \E l \in 1..2 : Executed[l + 1].at > Executed[l].at + 1
    /\ path_result.steps = steps

-----------------------------------------------------------------------------
(* The duplicate-request guard: the skipped step *)

\* the step the runner is about to run and the genes it requests: its 'genes'
\* argument after the injection from the context bus
CurrentStep == steps[i + 1]
RequestedGenes ==
    TargetGenes(InjectContextGenes(CurrentStep.tool, CurrentStep.args, active_genes_bus))

\* the genes the literature tool has received so far in this path
PassedToLiterature ==
    UNION {{calls[k].args.genes.list[n] : n \in 1..Len(calls[k].args.genes.list)} :
              k \in {n \in LitCalls : calls[n].reached}}

AllRequestedPassed ==
    \A n \in 1..Len(RequestedGenes) : RequestedGenes[n] \in PassedToLiterature

-----------------------------------------------------------------------------
(* The context bus of a discovery path *)

\* the history entry the runner has just appended
LastEntry == history[Len(history)]

\* C33: in a path that is no verification path the bus holds one entity set: a
\* step whose result yields a non-empty extraction replaces the bus by exactly
\* the extracted entities, a step whose result yields none (an error result, a
\* result without data, a result of the executor without a tool call) leaves it
\* as it was, and nothing else writes the bus
C33_BusReplacedNotMerged ==
    [][IF rpc = "exec" /\ rpc' = "post" /\ ~(path_id # <<>> /\ Head(path_id) = "verify_")
       THEN LET extracted == ExtractGenes(LastEntry'.step, LastEntry'.result)
            IN /\ extracted # <<>> => active_genes_bus' = extracted
               /\ extracted = <<>> => active_genes_bus' = active_genes_bus
               /\ LastEntry'.result.error => active_genes_bus' = active_genes_bus
       ELSE active_genes_bus' = active_genes_bus]_vars

\* the bus held two genes and a later step's result replaced it by one of them
C33_Witness ==
    /\ rpc = "post"
    /\ path_id = DiscoveryPathId
    /\ Len(history) = 2
    /\ ExtractGenes(history[1].step, history[1].result) = <<"EGFR", "MYC">>
    /\ ExtractGenes(history[2].step, history[2].result) = <<"EGFR">>
    /\ active_genes_bus = <<"EGFR">>

\* the bus held two genes and a later step returned an error: the bus is kept
C33_ErrorKeepsBus ==
    /\ rpc = "post"
    /\ path_id = DiscoveryPathId
    /\ Len(history) = 2
    /\ history[2].result.error
    /\ active_genes_bus = <<"EGFR", "MYC">>

-----------------------------------------------------------------------------
(* Injection from the context bus *)

LastCall == calls[Len(calls)]

\* the step the runner is about to run is entity-consuming and its args hold no
\* entity argument, or only the placeholder or the default
WantsEntities ==
    /\ rpc = "exec"
    /\ CurrentStep.tool \in {"search_literature", "query_opentargets", "query_kg", "run_omics"}
    /\ \/ ExistingIsFalsy(CurrentStep.args)
       \/ ExistingIsSentinel(CurrentStep.args)

\* the step the runner is about to run is entity-consuming and names an explicit
\* entity list
NamesEntities ==
    /\ rpc = "exec"
    /\ CurrentStep.tool \in {"search_literature", "query_opentargets", "query_kg", "run_omics"}
    /\ CurrentStep.args.genes.kind = "list"
    /\ CurrentStep.args.genes.list # <<>>

\* the runner's step has invoked the tool with the given gene list (no genes at
\* all standing for the empty list)
InvokedWith(genes) ==
    /\ Len(calls') = Len(calls) + 1
    /\ LastCall'.kind = "tool"
    /\ LastCall'.tool = CurrentStep.tool
    /\ LastCall'.reached
    /\ \/ LastCall'.args.genes = ListGenes(genes)
       \/ genes = <<>> /\ TargetGenes(LastCall'.args) = <<>>
    /\ LastCall'.args.gene = ""

\* the genes of a list the path has not queried the literature for
Unqueried(genes) == SelectSeq(genes, LAMBDA g : g \notin searched_genes_history)

C34_InjectedThenSkipped ==
    /\ path_id = DiscoveryPathId
    /\ rpc = "loop"
    /\ logs # <<>> /\ logs[Len(logs)].type = "skip"
    /\ steps[i].reason = ""
    /\ steps[i].args.genes = ListGenes(active_genes_bus)
    /\ active_genes_bus # <<>>

\* a step with the placeholder reached with an empty bus: nothing is injected
C34_EmptyBusReached ==
    /\ rpc = "post"
    /\ active_genes_bus = <<>>
    /\ LastCall.kind = "tool" /\ LastCall.tool = "query_kg" /\ ~LastCall.reached
    /\ LastCall.args.genes = StrGenes("<decide>")

-----------------------------------------------------------------------------
(* Injection in a verification run *)

\* the fixed target of a verification path
PathTarget == path_id[2]

\* C35: in a verification run an entity-consuming step whose args lack an entity
\* argument (a step the oracle inserted without genes) is invoked with the fixed
\* target as its entity argument; for a literature step the target is what the
\* step requests of the duplicate-request guard
C35_FixedTargetInjected ==
    [][(/\ rpc = "exec"
        /\ path_id # <<>> /\ Head(path_id) = "verify_"
        /\ CurrentStep.tool \in {"search_literature", "query_opentargets", "query_kg", "run_omics"}
        /\ ExistingIsFalsy(CurrentStep.args))
       => IF CurrentStep.tool = "search_literature"
          THEN Len(calls') > Len(calls) => LastCall'.requested = <<PathTarget>>
          ELSE /\ Len(calls') = Len(calls) + 1
               /\ LastCall'.kind = "tool"
               /\ LastCall'.tool = CurrentStep.tool
               /\ TargetGenes(LastCall'.args) = <<PathTarget>>]_vars

\* the verification path of TP53 has run an omics step the oracle inserted
\* without genes: the tool was invoked with no gene at all
C35_InsertedStepRunWithoutTarget ==
    /\ path_id = VerifyPathId("TP53")
    /\ rpc = "post"
    /\ i = 1
    /\ steps[2].reason = "dynamic_insert"
    /\ LastCall.kind = "tool" /\ LastCall.tool = "run_omics" /\ LastCall.reached
    /\ TargetGenes(LastCall.args) = <<>>
    /\ active_genes_bus = <<>>

-----------------------------------------------------------------------------
(* graph_system.py: executor, with the runners of the pool threads            *)
(* interleaved. Everything execute_path_with_reflection works on is a local   *)
(* of the call (lines 94-103) or the local_logs of run_single_path; the       *)
(* variables of the runner hold the locals of the thread that is running and  *)
(* workers holds the locals of the threads that are not. The thread "alone"  *)
(* runs the same path with the same oracle and tool answers as "first", from  *)
(* start to end before the others start; "first" and "second" interleave      *)
(* freely.                                                                    *)

Threads == {"alone", "first", "second"}

\* the locals of the running thread
Frame ==
    [rpc |-> rpc, path_id |-> path_id, steps |-> steps, i |-> i, history |-> history,
     active_genes_bus |-> active_genes_bus,
     searched_genes_history |-> searched_genes_history, logs |-> logs,
     path_result |-> path_result, env |-> env, inserts_left |-> inserts_left,
     calls |-> calls, iters |-> iters, end_reason |-> end_reason]

\* lines 94-103: the locals of a runner that starts on a path
StartFrame(p, e) ==
    [rpc |-> "loop", path_id |-> p.path_id, steps |-> p.steps, i |-> 0, history |-> <<>>,
     active_genes_bus |-> <<>>, searched_genes_history |-> {}, logs |-> <<>>,
     path_result |-> NoPathResult, env |-> e, inserts_left |-> MaxInserts,
     calls |-> <<>>, iters |-> 0, end_reason |-> "none"]

\* the already-queried set is one object for all threads
ResumeSharingQueried(f) ==
    /\ rpc' = f.rpc /\ path_id' = f.path_id /\ steps' = f.steps /\ i' = f.i
    /\ history' = f.history /\ active_genes_bus' = f.active_genes_bus
    /\ UNCHANGED searched_genes_history
    /\ logs' = f.logs /\ path_result' = f.path_result /\ env' = f.env
    /\ inserts_left' = f.inserts_left /\ calls' = f.calls /\ iters' = f.iters
    /\ end_reason' = f.end_reason

\* a thread goes on with its own locals
Resume(f) ==
    /\ rpc' = f.rpc /\ path_id' = f.path_id /\ steps' = f.steps /\ i' = f.i
    /\ history' = f.history /\ active_genes_bus' = f.active_genes_bus
    /\ searched_genes_history' = f.searched_genes_history
    /\ logs' = f.logs /\ path_result' = f.path_result /\ env' = f.env
    /\ inserts_left' = f.inserts_left /\ calls' = f.calls /\ iters' = f.iters
    /\ end_reason' = f.end_reason

\* the thread that is running: the one whose locals workers does not hold
RunningThread == CHOOSE t \in Threads : t \notin DOMAIN workers

\* the interpreter passes control to thread t; agg_logs keeps the threads that
\* lost control between two of their steps
SwitchTo(t) ==
    /\ t \in DOMAIN workers
    /\ workers[t].rpc \notin {"done", "failed"}
    /\ RunningThread = "alone" => rpc \in {"done", "failed"}
    /\ workers' = [u \in (DOMAIN workers \ {t}) \cup {RunningThread} |->
                      IF u = RunningThread THEN Frame ELSE workers[u]]
    /\ agg_logs' = IF rpc \notin {"done", "failed"} /\ calls # <<>>
                   THEN agg_logs \cup {RunningThread} ELSE agg_logs
    /\ Resume(workers[t])
    /\ UNCHANGED <<epc, exec_results>>

\* lines 128-143: two paths are submitted to the pool, and the thread "alone"
\* runs a second copy of the runner on the path of "first". The oracles and
\* tools answer as a function of what they are asked: the oracle gives its
\* decision d while inserts are left and CONTINUE afterwards, the tools return
\* the same genes, the synthesis call the same candidates
ThreadsInit ==
    /\ \E p1 \in InitialPaths, d1 \in InsertDecisions \cup {Decision("STOP", "", NoArgs)} :
       \E p2 \in {p \in InitialPaths : p.path_id \in {DiscoveryPathId, <<"p2">>}},
          d2 \in {d \in InsertDecisions : d.tool \in {"search_literature", "run_omics"}
                                           /\ d.args.gene = ""} :
          LET EnvOf(d) ==
                 [mode |-> "once", answer |-> d, genes |-> <<"EGFR", "MYC">>,
                  synthesis |-> Synthesis("candidate_targets", <<"TP53", "EGFR">>, NoNotes)]
              f == StartFrame(p1, EnvOf(d1))
          IN /\ rpc = f.rpc /\ path_id = f.path_id /\ steps = f.steps /\ i = f.i
             /\ history = f.history /\ active_genes_bus = f.active_genes_bus
             /\ searched_genes_history = f.searched_genes_history
             /\ logs = f.logs /\ path_result = f.path_result /\ env = f.env
             /\ inserts_left = f.inserts_left /\ calls = f.calls /\ iters = f.iters
             /\ end_reason = f.end_reason
             /\ workers = [t \in {"first", "second"} |->
                              IF t = "first" THEN StartFrame(p1, EnvOf(d1))
                              ELSE StartFrame(p2, EnvOf(d2))]
    /\ epc = "running"
    /\ exec_results = <<>>
    /\ agg_logs = {}
    /\ gpc = "executor"
    /\ user_input = <<"discover">>
    /\ task_understanding = [task_type |-> "discovery", target_gene |-> ""]
    /\ planned_paths = <<>>
    /\ path_results = <<>>
    /\ final_candidates = <<>>
    /\ PlaybookEmpty
    /\ ResourcesUnloaded

ThreadsNext ==
    \/ LoopHead /\ UNCHANGED <<gvars, pbvars, evars, tvars>>
    \/ ExecStep /\ UNCHANGED <<gvars, pbvars, evars, tvars>>
    \/ PostStep /\ UNCHANGED <<gvars, pbvars, evars, tvars>>
    \/ Synthesize /\ UNCHANGED <<gvars, pbvars, evars, tvars>>
    \/ \E t \in Threads : SwitchTo(t) /\ UNCHANGED <<gvars, pbvars, tvars>>

SpecThreads == ThreadsInit /\ [][ThreadsNext]_vars

\* thread t has returned
Ended(f) == f.rpc \in {"done", "failed"}

\* the locals of thread t
LocalsOf(t) == IF t = RunningThread THEN Frame ELSE workers[t]

\* the calls of executor.execute of a list of calls that returned
Returned(cs) == SelectSeq(cs, LAMBDA c : c.kind = "tool" /\ ~c.raised)

\* C36: paths do not interfere: in every interleaving a step of one thread
\* leaves the step queue, history, bus, already-queried set and every other
\* local of the other threads as they were; the history the oracle is given at
\* a consultation is the history of the consulting path, one entry for each of
\* that path's own tool calls so far; and the {history, steps} a path returns
\* are those the same path returns when it runs alone with the same oracle and
\* tool answers
C36_PathsDoNotInterfere ==
    /\ [][\A t \in Threads : t # RunningThread => LocalsOf(t)' = LocalsOf(t)]_vars
    /\ [](\A t \in Threads :
             LET f == LocalsOf(t)
             IN \A k \in 1..Len(f.calls) :
                   f.calls[k].kind = "oracle" =>
                      LET own == Returned(SubSeq(f.calls, 1, k - 1))
                      IN /\ Len(f.calls[k].history) = Len(own)
                         /\ f.calls[k].history = SubSeq(f.history, 1, Len(own))
                         /\ \A n \in 1..Len(own) :
                               /\ f.calls[k].history[n].step = own[n].tool
                               /\ f.calls[k].history[n].args = own[n].args)
    /\ [](\A t \in {"first"} :
             (Ended(LocalsOf("alone")) /\ Ended(LocalsOf(t))) =>
                /\ LocalsOf(t).path_result.history = LocalsOf("alone").path_result.history
                /\ LocalsOf(t).path_result.steps = LocalsOf("alone").path_result.steps
                /\ LocalsOf(t).path_result.error = LocalsOf("alone").path_result.error)

\* two paths have run interleaved, each losing control between two of its
\* steps, and the first has returned a history of three entries and a queue
\* with an inserted step, as the same path did alone
C36_Witness ==
    /\ agg_logs = {"first", "second"}
    /\ Ended(LocalsOf("first"))
    /\ Ended(LocalsOf("second"))
    /\ Len(LocalsOf("first").path_result.history) = 3
    /\ Len(LocalsOf("second").path_result.history) >= 2
    /\ \E k \in 1..Len(LocalsOf("first").path_result.steps) :
          LocalsOf("first").path_result.steps[k].reason = "dynamic_insert"
    /\ LocalsOf("first").path_result.history = LocalsOf("alone").path_result.history
    /\ LocalsOf("first").searched_genes_history # LocalsOf("second").searched_genes_history

-----------------------------------------------------------------------------
(* The number of tool invocations of a path *)

\* the calls of executor.execute made so far
Invocations == SelectSeq(calls, LAMBDA c : c.kind = "tool")

\* C37: in every reachable state of a path run the number of tool invocations
\* made so far is at most 50, and so is the length of the history, which holds
\* one entry for every invocation that returned, whatever the oracle answers
\* and however long the queue grows
C37_AtMostFiftyInvocations ==
    /\ Len(Invocations) <= 50
    /\ Len(history) <= Len(Invocations)
    /\ Len(history) <= 50
    /\ \A k \in 1..Len(Invocations) : Invocations[k].at < 50

\* a path has made fifty tool invocations, its queue holds more than fifty
\* steps, and the loop has ended by its bound
C37_Witness ==
    /\ Len(Invocations) = 50
    /\ Len(history) = 50
    /\ Len(steps) > 50
    /\ end_reason = "bound"
    /\ rpc = "done"

-----------------------------------------------------------------------------
(* Placeholders among the arguments of a tool call *)

\* the arguments hold the placeholder, as a value or inside the gene list
HoldsPlaceholder(args) ==
    \/ args.gene = "<decide>"
    \/ args.genes.kind = "str" /\ args.genes.str = "<decide>"
    \/ args.genes.kind = "list" /\ \E n \in 1..Len(args.genes.list) :
                                       args.genes.list[n] = "<decide>"

\* C38: no tool is ever invoked with an unresolved <decide> placeholder among
\* its arguments: a call of the executor whose arguments still hold the
\* placeholder does not reach the tool, whichever tool it is, and its history
\* entry carries the executor's skipped result
C38_NoToolInvokedWithPlaceholder ==
    /\ \A k \in 1..Len(calls) :
          (calls[k].kind = "tool" /\ HoldsPlaceholder(calls[k].args)) => ~calls[k].reached
    /\ \A k \in 1..Len(history) :
          HoldsPlaceholder(history[k].args) => history[k].result.status = "skipped"

\* the literature step of the discovery path was reached with genes "<decide>"
\* and an empty bus, and the literature tool was invoked with ["<decide>"]
C38_LiteratureInvokedWithPlaceholder ==
    /\ path_id = DiscoveryPathId
    /\ active_genes_bus = <<>>
    /\ rpc = "post"
    /\ i = 2
    /\ LastCall.kind = "tool" /\ LastCall.tool = "search_literature" /\ LastCall.reached
    /\ LastCall.args.genes = ListGenes(<<"<decide>">>)
    /\ history[2].result.status = "skipped"
    /\ history[3].result.status # "skipped"
    /\ "<decide>" \in searched_genes_history

-----------------------------------------------------------------------------
(* The duplicate-request guard: what it may skip *)

\* the genes the step the runner is about to run names, in 'genes' or in 'gene',
\* after the injection from the bus
NamedGenes ==
    LET a == InjectContextGenes(CurrentStep.tool, CurrentStep.args, active_genes_bus)
    IN {TargetGenes(a)[n] : n \in 1..Len(TargetGenes(a))}
       \cup (IF a.gene # "" THEN {a.gene} ELSE {})

\* the genes the search_literature calls of the path were handed so far
QueriedEarlier ==
    UNION {{calls[k].args.genes.list[n] : n \in 1..Len(calls[k].args.genes.list)}
           \cup (IF calls[k].args.gene # "" THEN {calls[k].args.gene} ELSE {}) :
              k \in LitCalls}

\* C39: a search_literature step is skipped as a duplicate only if it names at
\* least one gene and all the genes it names were queried earlier in the path;
\* the first literature step of a path and a step that passes a single 'gene'
\* are executed
C39_SkippedOnlyIfAllQueried ==
    [][(rpc = "exec" /\ rpc' = "loop")
       => /\ CurrentStep.tool = "search_literature"
          /\ NamedGenes # {}
          /\ NamedGenes \subseteq QueriedEarlier
          /\ LitCalls # {}]_vars

\* the first step of a path, search_literature with {gene: TP53}, has been
\* skipped as a duplicate: no call was made and nothing was queried before
C39_FirstLiteratureStepSkipped ==
    /\ path_id = <<"p1">>
    /\ rpc = "loop"
    /\ i = 1
    /\ steps[1].tool = "search_literature"
    /\ steps[1].args.gene = "TP53"
    /\ logs = <<[type |-> "skip", step |-> "search_literature", decision |-> "",
                 reason |-> "duplicate_genes"]>>
    /\ calls = <<>>
    /\ history = <<>>
    /\ searched_genes_history = {}

-----------------------------------------------------------------------------
(* From the path result to the final candidate list *)

\* what deDuplicate returns for the result of the path
FinalEntries == deDuplicate(<<PathResultView(path_result)>>)

\* C40: every entry of the final candidate list is backed by evidence: whatever
\* the shape of the synthesis output, an entry deDuplicate returns is of a
\* candidate on which some entry of the path's history holds evidence, and it
\* carries the novelty label and the non-empty reason, tagged with the path,
\* that the fusion wrote for that candidate
C40_FinalEntriesBackedByEvidence ==
    rpc = "done" =>
        \A k \in 1..Len(FinalEntries) :
            LET e == FinalEntries[k]
                notes == path_result.synthesis.novelty_notes
            IN /\ \E n \in 1..Len(history) : Supports(history[n], e.gene)
               /\ notes[e.gene].kind = "dict"
               /\ notes[e.gene].reason.path_id = path_id
               /\ notes[e.gene].reason.text # <<>>
               /\ e.novel = notes[e.gene].novel
               /\ e.reason = notes[e.gene].reason

\* the synthesis call returned its candidate under the key 'candidates' and the
\* history holds no evidence on it: the final list holds the candidate
C40_UnbackedEntryReturned ==
    /\ rpc = "done"
    /\ RawSynthesis.candidates = <<"TP53">>
    /\ \A n \in 1..Len(history) : ~Supports(history[n], "TP53")
    /\ Len(history) = 2
    /\ Len(FinalEntries) = 1
    /\ FinalEntries[1].gene = "TP53"
    /\ FinalEntries[1].novel
    /\ path_result.synthesis.novelty_notes["TP53"].kind # "dict"

\* with the candidates under 'candidate_targets' every final entry is backed
C40_BackedUnderCandidateTargets ==
    (rpc = "done" /\ RawSynthesis.candidates = <<>>) =>
        \A k \in 1..Len(FinalEntries) :
            /\ \E n \in 1..Len(history) : Supports(history[n], FinalEntries[k].gene)
            /\ path_result.synthesis.novelty_notes[FinalEntries[k].gene].kind = "dict"
            /\ FinalEntries[k].reason.text # <<>>
====
